---------------------------- MODULE Spec2Model ----------------------------
(***************************************************************************)
(* A model of two pipelines and two components of the braid design system: *)
(*                                                                         *)
(*   - makeBraidTheme (src/lib/themes/makeBraidTheme.ts): a token tree is  *)
(*     decorated (hover / active / light background variants, typography   *)
(*     normalised to cap height) and flattened into runtime tokens         *)
(*     (webFonts, backgroundLightness, ...);                               *)
(*   - the type doc extractor (src/unnamed/part_000): the exports of the   *)
(*     components module are walked and their types normalised into a      *)
(*     depth-bounded doc tree;                                             *)
(*   - Rating (src/lib/components/Rating/Rating.tsx) and TooltipRenderer   *)
(*     (src/lib/components/TooltipRenderer/TooltipRenderer.tsx).           *)
(*                                                                         *)
(* Colours are modelled by their HSL lightness in percent (0..100), which  *)
(* is the only channel polished's darken and lighten change; a colour may  *)
(* also be undefined.  Lengths are integers in 1/100 px.                   *)
(***************************************************************************)
EXTENDS Integers, Sequences, FiniteSets, TLC

VARIABLES
    input,      \* the TreatTokens tree makeBraidTheme is called with
    status,     \* "idle" before the call, then "returned" or "threw"
    theme,      \* what makeBraidTheme returned (EmptyTheme before, or when it threw)
    env,        \* what the extractor reads: the compiler config and the module's exports
    pc,         \* where the extractor is: readConfig, parseConfig, createProgram,
                \* exports, then returned or thrown ("off" while it does not run)
    next,       \* the index of the export the export loop handles next
    stack,      \* the call frames of the export being documented, innermost last
    docs,       \* the export docs produced so far, by export name
    log,        \* what was written to the console, in order
    ratingProps,    \* the props Rating is rendered with
    ratingStatus,   \* "idle" before Rating renders, then "rendered" or "threw"
                    \* ("off" while no Rating is rendered)
    rendered,       \* what Rating rendered: its stars and its labels
    calls,          \* the invocations of makeBraidTheme so far, each with the
                    \* tree it was given and its result, when several are made
    tooltip,        \* the state of a mounted TooltipRenderer: its context, its
                    \* React state, its refs, its document listeners and timeouts
    event           \* the last event the TooltipRenderer met, with its number

themeVars == <<input, status, theme>>

docsVars == <<env, pc, next, stack, docs, log>>

ratingVars == <<ratingProps, ratingStatus, rendered>>

tooltipVars == <<tooltip, event>>

vars == <<input, status, theme, env, pc, next, stack, docs, log,
          ratingProps, ratingStatus, rendered, calls, tooltip, event>>

----------------------------------------------------------------------------
(* Bounds of the model *)

\* A token tree of the model is the base tree with at most this many of its
\* background colours (or text definitions) replaced.
MaxOverrides == 1

\* The components module of the model exports at most this many symbols.
MaxExports == 2

\* The ratings of the model are the multiples of 1/Steps from one unit below
\* 0 to one unit above 5, and NaN.
Steps == 200

\* makeBraidTheme is invoked at most this many times in a row.
MaxCalls == 3

\* A mounted TooltipRenderer meets at most this many events.
MaxEvents == 6

----------------------------------------------------------------------------
(* Helpers *)

Max(a, b) == IF a >= b THEN a ELSE b

Min(a, b) == IF a <= b THEN a ELSE b

Range(s) == {s[i] : i \in DOMAIN s}

\* The function f extended by (and overridden with) the function g.
Merge(f, g) ==
    [k \in (DOMAIN f) \cup (DOMAIN g) |-> IF k \in DOMAIN g THEN g[k] ELSE f[k]]

----------------------------------------------------------------------------
(* The numbers and the output of Rating *)

\* A JavaScript number of the model: NaN, or steps/Steps.
Number(steps) == [nan |-> FALSE, steps |-> steps]

NaN == [nan |-> TRUE, steps |-> 0]

\* What toFixed(1) returns: 'NaN', or the decimal with this many tenths.
Fixed(tenths) == [nan |-> FALSE, tenths |-> tenths]

FixedNaN == [nan |-> TRUE, tenths |-> 0]

NoRatingProps == [rating |-> Number(0), showTextRating |-> FALSE, ariaLabel |-> ""]

NothingRendered ==
    [stars |-> <<>>,
     ariaLabel |-> [custom |-> FALSE, fixed |-> Fixed(0), outOf |-> 0],
     textRating |-> [shown |-> FALSE, fixed |-> Fixed(0)]]

\* No Rating is rendered.
RatingOff ==
    /\ ratingProps = NoRatingProps
    /\ ratingStatus = "off"
    /\ rendered = NothingRendered

\* An event of the TooltipRenderer: its number, its kind, the key of a
\* keydown, the timeout that fired, and whether the tooltip was visible, and
\* its element mounted, when the event came.
Event(n, kind, key, timeout, wasVisible, wasMounted) ==
    [n |-> n, kind |-> kind, key |-> key, timeout |-> timeout,
     wasVisible |-> wasVisible, wasMounted |-> wasMounted]

NoEvent == Event(0, "none", "", 0, FALSE, FALSE)

NoTooltip ==
    [isStatic |-> FALSE, mobile |-> FALSE, controlledVisible |-> FALSE,
     opacity |-> 0, triggerRef |-> FALSE, tooltipRef |-> FALSE,
     visible |-> FALSE, listeners |-> {}, timeout |-> 0, timeouts |-> {},
     hiddenAt |-> 0]

\* No TooltipRenderer is mounted.
TooltipOff ==
    /\ tooltip = NoTooltip
    /\ event = NoEvent

----------------------------------------------------------------------------
(* Colours *)

Color(l) == [defined |-> TRUE, lightness |-> l]

Undefined == [defined |-> FALSE, lightness |-> 0]

\* The lightness above which a colour counts as light.
LightThreshold == 50

\* ../utils isLight: a colour is light when its lightness is above the threshold.
isLight(x) == x.lightness > LightThreshold

\* polished darken / lighten: the HSL lightness moved by amount (in percent),
\* clamped to [0, 100].
darken(amount, x) == [x EXCEPT !.lightness = Max(0, @ - amount)]

lighten(amount, x) == [x EXCEPT !.lightness = Min(100, @ + amount)]

\* ../utils getLightVariant: a lightened variant computed from the colour alone.
getLightVariant(x) ==
    IF x.defined THEN [x EXCEPT !.lightness = Max(@, 90 + (@ \div 10))] ELSE x


----------------------------------------------------------------------------
(* Token trees *)

BackgroundKeys ==
    {"body", "brand", "input", "inputDisabled", "brandAccent", "formAccent",
     "formAccentDisabled", "selection", "info", "promote", "card", "critical",
     "caution", "positive", "neutral"}

FontWeightKeys == {"regular", "medium", "strong"}

TextKeys == {"xsmall", "small", "standard", "large"}

HeadingLevels == {"1", "2", "3", "4"}

TextBreakpoints == {"mobile", "tablet"}

ThemeNames == {"jobsDb", "seekAnz", "wireframe"}

\* typography.webFont: string | null ("null" stands for null, "" is the empty string).
WebFontNames == {"null", "", "Roboto"}

Weights == {400, 500, 700, 1000}

\* The lightnesses the model's colours take: the ends of the scale, values
\* that darken or lighten clamps, and values on both sides of the threshold
\* that a 5% or 10% move does or does not carry across it.
LightnessSamples == {0, 3, 8, 44, 50, 51, 54, 57, 62, 93, 97, 100}

ColorSamples == {Undefined} \cup {Color(l) : l \in LightnessSamples}

\* One breakpoint of a text definition, in either of its two forms.
FontSizeText(fontSize, rows) == [fontSize |-> fontSize, rows |-> rows]

CapHeightText(capHeight, rows) == [capHeight |-> capHeight, rows |-> rows]

BreakpointSamples ==
    {FontSizeText(1400, 5), FontSizeText(1600, 6),
     CapHeightText(1000, 5), CapHeightText(1143, 6)}

TextDefinitions == [TextBreakpoints -> BreakpointSamples]

BaseTextDefinition ==
    [mobile |-> FontSizeText(1600, 6), tablet |-> CapHeightText(1143, 6)]

BaseBackground ==
    [body |-> Color(96), brand |-> Color(30), input |-> Color(100),
     inputDisabled |-> Color(95), brandAccent |-> Color(45),
     formAccent |-> Color(40), formAccentDisabled |-> Color(80),
     selection |-> Color(93), info |-> Color(35), promote |-> Color(40),
     card |-> Color(100), critical |-> Color(45), caution |-> Color(60),
     positive |-> Color(30), neutral |-> Color(20)]

BaseTypography ==
    [webFont |-> "Roboto",
     fontMetrics |-> [capHeight |-> 1456, unitsPerEm |-> 2048],
     fontWeight |-> [regular |-> 400, medium |-> 500, strong |-> 700],
     heading |-> [level |-> [l \in HeadingLevels |-> BaseTextDefinition]],
     text |-> [t \in TextKeys |-> BaseTextDefinition]]

BaseTokens ==
    [name |-> "seekAnz",
     displayName |-> "SEEK ANZ",
     typography |-> BaseTypography,
     breakpoint |-> [mobile |-> 0, tablet |-> 768, desktop |-> 1136],
     grid |-> 4,
     space |-> [gutter |-> 6, small |-> 3, medium |-> 5, large |-> 8],
     color |-> [background |-> BaseBackground]]

\* The functions that override at most MaxOverrides keys of keys with values.
Overrides(keys, values) ==
    UNION {[S -> values] : S \in {T \in SUBSET keys : Cardinality(T) <= MaxOverrides}}

\* A token tree that differs from the base tree in the theme name and in
\* some background colours.
ColorTokenTree(n, o) ==
    [BaseTokens EXCEPT !.name = n, !.color.background = Merge(@, o)]

\* A token tree that differs from the base tree in the web font and its weights.
FontTokenTree(w, fw) ==
    [BaseTokens EXCEPT !.typography.webFont = w, !.typography.fontWeight = fw]

\* The eight text definitions of a tree: typography.text and typography.heading.level.
TextSlots == ({"text"} \X TextKeys) \cup ({"heading"} \X HeadingLevels)

\* A token tree that differs from the base tree in some text definitions.
TypographyTokenTree(o) ==
    [BaseTokens EXCEPT
        !.typography.text =
            [k \in TextKeys |->
                IF <<"text", k>> \in DOMAIN o THEN o[<<"text", k>>] ELSE @[k]],
        !.typography.heading.level =
            [l \in HeadingLevels |->
                IF <<"heading", l>> \in DOMAIN o THEN o[<<"heading", l>>] ELSE @[l]]]

----------------------------------------------------------------------------
(* decorateTokens: typography *)

\* capsize getCapHeight: the cap height of the font at fontSize, rounded to
\* the model's resolution.
getCapHeight(fontSize, fontMetrics) ==
    (2 * fontSize * fontMetrics.capHeight + fontMetrics.unitsPerEm)
        \div (2 * fontMetrics.unitsPerEm)

\* One breakpoint of fontSizeToCapHeight's result.
breakpointToCapHeight(bp, fontMetrics) ==
    [capHeight |->
        IF "fontSize" \in DOMAIN bp
            THEN getCapHeight(bp.fontSize, fontMetrics)
            ELSE bp.capHeight,
     rows |-> bp.rows]

\* A faulty variant of fontSizeToCapHeight: the tablet breakpoint is computed from the
\* mobile one.
fontSizeToCapHeightMobileTwice(definition, fontMetrics) ==
    [mobile |-> breakpointToCapHeight(definition.mobile, fontMetrics),
     tablet |-> breakpointToCapHeight(definition.mobile, fontMetrics)]

fontSizeToCapHeight(definition, fontMetrics) ==
    [mobile |-> breakpointToCapHeight(definition.mobile, fontMetrics),
     tablet |-> breakpointToCapHeight(definition.tablet, fontMetrics)]

normaliseSizingToCapHeight(typography) ==
    [typography EXCEPT
        !.heading.level =
            [l \in DOMAIN @ |-> fontSizeToCapHeight(@[l], typography.fontMetrics)],
        !.text =
            [t \in DOMAIN @ |-> fontSizeToCapHeight(@[t], typography.fontMetrics)]]

----------------------------------------------------------------------------
(* decorateTokens: colours *)

\* A faulty variant of getActiveColor: the two amounts are swapped.
getActiveColorSwapped(x) == IF isLight(x) THEN darken(5, x) ELSE darken(10, x)

getActiveColor(x) == IF isLight(x) THEN darken(10, x) ELSE darken(5, x)

\* A faulty variant of getHoverColor: a dark colour is darkened as well.
getHoverColorDarkens(x) == darken(5, x)

getHoverColor(x) == IF isLight(x) THEN darken(5, x) ELSE lighten(5, x)

\* The background roles that get an active and a hover variant.
AccentRoles == {"formAccent", "brandAccent", "critical"}

\* The background roles that get a light variant.
LightRoles == {"info", "promote", "critical", "positive", "caution", "neutral"}

\* polished's darken and lighten parse their colour argument and throw when it
\* is not a colour string.
parseThrows(x) == ~x.defined

\* What getLightVariant may do with an undefined colour: throw, or return undefined.
OnUndefined == {"throw", "undefined"}

\* decorateTokens throws when a colour it derives a variant from cannot be parsed.
decorateThrows(treatTokens, onUndefined) ==
    LET background == treatTokens.color.background
    IN  \/ \E r \in AccentRoles : parseThrows(background[r])
        \/ /\ onUndefined = "throw"
           /\ \E r \in LightRoles : parseThrows(background[r])

\* A faulty variant of decoratedBackground: cautionLight is derived from
\* positive.
decoratedBackgroundCautionFromPositive(background) ==
    Merge(background,
        [formAccentActive |-> getActiveColor(background.formAccent),
         formAccentHover |-> getHoverColor(background.formAccent),
         brandAccentActive |-> getActiveColor(background.brandAccent),
         brandAccentHover |-> getHoverColor(background.brandAccent),
         criticalActive |-> getActiveColor(background.critical),
         criticalHover |-> getHoverColor(background.critical),
         infoLight |-> getLightVariant(background.info),
         promoteLight |-> getLightVariant(background.promote),
         criticalLight |-> getLightVariant(background.critical),
         positiveLight |-> getLightVariant(background.positive),
         cautionLight |-> getLightVariant(background.positive),
         neutralLight |-> getLightVariant(background.neutral)])

decoratedBackground(background) ==
    Merge(background,
        [formAccentActive |-> getActiveColor(background.formAccent),
         formAccentHover |-> getHoverColor(background.formAccent),
         brandAccentActive |-> getActiveColor(background.brandAccent),
         brandAccentHover |-> getHoverColor(background.brandAccent),
         criticalActive |-> getActiveColor(background.critical),
         criticalHover |-> getHoverColor(background.critical),
         infoLight |-> getLightVariant(background.info),
         promoteLight |-> getLightVariant(background.promote),
         criticalLight |-> getLightVariant(background.critical),
         positiveLight |-> getLightVariant(background.positive),
         cautionLight |-> getLightVariant(background.caution),
         neutralLight |-> getLightVariant(background.neutral)])

decorateTokens(treatTokens) ==
    [treatTokens EXCEPT
        !.color.background = decoratedBackground(@),
        !.typography = normaliseSizingToCapHeight(@)]

----------------------------------------------------------------------------
(* makeWebFonts *)

\* The decimal digits of n: the string JavaScript's default sort compares.
RECURSIVE digits(_)
digits(n) == IF n < 10 THEN <<n>> ELSE Append(digits(n \div 10), n % 10)

\* a < b as strings, code unit by code unit.
RECURSIVE stringLess(_, _)
stringLess(a, b) ==
    IF b = <<>> THEN FALSE
    ELSE IF a = <<>> THEN TRUE
    ELSE IF a[1] # b[1] THEN a[1] < b[1]
    ELSE stringLess(Tail(a), Tail(b))

\* Array.prototype.sort without a comparator: ascending by string value.
defaultLess(a, b) == stringLess(digits(a), digits(b))

RECURSIVE insertSorted(_, _)
insertSorted(x, sorted) ==
    IF sorted = <<>> THEN <<x>>
    ELSE IF defaultLess(x, sorted[1]) THEN <<x>> \o sorted
    ELSE <<sorted[1]>> \o insertSorted(x, Tail(sorted))

RECURSIVE sortFrom(_, _)
sortFrom(array, i) ==
    IF i = 0 THEN <<>> ELSE insertSorted(array[i], sortFrom(array, i - 1))

sort(array) == sortFrom(array, Len(array))

\* lodash values of the fontWeight table.
values(fontWeight) == <<fontWeight.regular, fontWeight.medium, fontWeight.strong>>

\* A faulty variant of noWebFont: only null counts as no web font.
nullOnly(name) == name = "null"

\* !name: null and the empty string are falsy.
noWebFont(name) == name \in {"null", ""}

\* A faulty variant of makeWebFonts: the link tags are collected in a list
\* that outlives the invocation.
makeWebFontsAccumulated(tokens) ==
    LET name == tokens.typography.webFont
        earlier == IF calls # <<>> /\ calls[Len(calls)].result.status = "returned"
                    THEN calls[Len(calls)].result.theme.runtime.webFonts
                    ELSE <<>>
    IN  IF noWebFont(name)
            THEN earlier
            ELSE Append(earlier,
                        [linkTag |->
                            [family |-> name,
                             weights |-> sort(values(tokens.typography.fontWeight))]])

\* The link tag is modelled by the family and the weight list it requests.
makeWebFonts(tokens) ==
    LET name == tokens.typography.webFont
    IN  IF noWebFont(name)
            THEN <<>>
            ELSE <<[linkTag |->
                      [family |-> name,
                       weights |-> sort(values(tokens.typography.fontWeight))]]>>

----------------------------------------------------------------------------
(* makeRuntimeTokens *)

referenceColorMap ==
    [brandAccentActive |-> "brandAccent", brandAccentHover |-> "brandAccent",
     formAccentActive |-> "formAccent", formAccentHover |-> "formAccent"]

\* /^brandAccent/.test(name), over the keys of the decorated palette.
brandAccentPattern(name) ==
    name \in {"brandAccent", "brandAccentActive", "brandAccentHover"}

\* A faulty variant of jobsDbOverride: only the key brandAccent itself is overridden.
jobsDbOverrideExactKey(tokens, name) ==
    tokens.name = "jobsDb" /\ name = "brandAccent"

jobsDbOverride(tokens, name) == tokens.name = "jobsDb" /\ brandAccentPattern(name)

referenceColor(tokens, name) ==
    IF name \in DOMAIN referenceColorMap
        THEN tokens.color.background[referenceColorMap[name]]
        ELSE tokens.color.background[name]

\* A faulty variant of referenceMissing: the check for an undefined colour is left out.
referenceNeverMissing(tokens, name) == FALSE

\* !referenceColor
referenceMissing(tokens, name) == ~referenceColor(tokens, name).defined

\* The callback of mapValues throws for this entry.
lightnessThrows(tokens, name) ==
    ~jobsDbOverride(tokens, name) /\ referenceMissing(tokens, name)

\* The value the callback of mapValues returns for this entry.
lightnessOf(tokens, name) ==
    IF jobsDbOverride(tokens, name) THEN "dark"
    ELSE IF isLight(referenceColor(tokens, name)) THEN "light" ELSE "dark"

runtimeThrows(tokens) ==
    \E name \in DOMAIN tokens.color.background : lightnessThrows(tokens, name)

makeRuntimeTokens(tokens) ==
    [name |-> tokens.name,
     displayName |-> tokens.displayName,
     background |-> tokens.color.background.body,
     webFonts |-> makeWebFonts(tokens),
     space |-> [grid |-> tokens.grid, space |-> tokens.space],
     breakpoint |-> tokens.breakpoint,
     color |-> tokens.color,
     backgroundLightness |->
        [name \in DOMAIN tokens.color.background |-> lightnessOf(tokens, name)]]

----------------------------------------------------------------------------
(* makeBraidTheme *)

\* The theme variable while no theme has been produced.
EmptyTheme == [treatTheme |-> <<>>, runtime |-> <<>>]

makeBraidTheme(treatTokens, onUndefined) ==
    LET decoratedTokens == decorateTokens(treatTokens)
    IN  IF \/ decorateThrows(treatTokens, onUndefined)
           \/ runtimeThrows(decoratedTokens)
            THEN [status |-> "threw", theme |-> EmptyTheme]
            ELSE [status |-> "returned",
                  theme |-> [treatTheme |-> decoratedTokens,
                             runtime |-> makeRuntimeTokens(decoratedTokens)]]

Init ==
    /\ \/ \E n \in ThemeNames, o \in Overrides(BackgroundKeys, ColorSamples) :
            input = ColorTokenTree(n, o)
       \/ \E w \in WebFontNames, fw \in [FontWeightKeys -> Weights] :
            input = FontTokenTree(w, fw)
       \/ \E o \in Overrides(TextSlots, TextDefinitions) :
            input = TypographyTokenTree(o)
    /\ status = "idle"
    /\ theme = EmptyTheme
    /\ env = [config |-> "ok", hasModule |-> FALSE, exports |-> <<>>]
    /\ pc = "off"
    /\ next = 1
    /\ stack = <<>>
    /\ docs = <<>>
    /\ log = <<>>
    /\ RatingOff
    /\ calls = <<>>
    /\ TooltipOff

MakeBraidTheme ==
    /\ status = "idle"
    /\ \E onUndefined \in OnUndefined :
        LET result == makeBraidTheme(input, onUndefined)
        IN  /\ status' = result.status
            /\ theme' = result.theme
    /\ UNCHANGED input
    /\ UNCHANGED <<docsVars, ratingVars, calls, tooltipVars>>

Next == MakeBraidTheme

Spec == Init /\ [][Next]_vars

----------------------------------------------------------------------------
(* The theme compiler's claims *)

Returned == status = "returned"

\* The authored background palette and the decorated palette of the result.
Authored == input.color.background

Decorated == theme.runtime.color.background

Lightness == theme.runtime.backgroundLightness

HoverKey ==
    [formAccent |-> "formAccentHover", brandAccent |-> "brandAccentHover",
     critical |-> "criticalHover"]

ActiveKey ==
    [formAccent |-> "formAccentActive", brandAccent |-> "brandAccentActive",
     critical |-> "criticalActive"]

Classify(l) == IF l > LightThreshold THEN "light" ELSE "dark"

\* C1: in every theme makeBraidTheme returns, the hover and the active variant
\* of formAccent, brandAccent and critical have the backgroundLightness of
\* their base colour.
C1_VariantsShareBaseLightness ==
    Returned =>
        \A base \in AccentRoles :
            /\ Lightness[HoverKey[base]] = Lightness[base]
            /\ Lightness[ActiveKey[base]] = Lightness[base]

\* C2: whenever a background colour of the token tree is undefined,
\* makeBraidTheme throws and produces no theme, for every theme name and key.
C2_UndefinedBackgroundThrows ==
    (status # "idle" /\ \E k \in BackgroundKeys : ~Authored[k].defined)
        => (status = "threw" /\ theme = EmptyTheme)

\* The call threw on a colour that no variant is derived from, in the jobsDb theme.
C2_Witness ==
    /\ status = "threw"
    /\ input.name = "jobsDb"
    /\ ~Authored.body.defined
    /\ \A k \in BackgroundKeys \ {"body"} : Authored[k].defined

\* C3: for the theme named jobsDb the three brandAccent keys are classified
\* dark whatever their colour; for any other theme name they are classified
\* by the lightness of their reference colour, brandAccent.
C3_JobsDbBrandAccentDark ==
    Returned =>
        \A k \in {"brandAccent", "brandAccentHover", "brandAccentActive"} :
            Lightness[k] =
                IF input.name = "jobsDb" THEN "dark"
                ELSE Classify(Authored.brandAccent.lightness)

\* jobsDb with a light brandAccent whose hover variant is still light, classified dark.
C3_Witness ==
    /\ Returned
    /\ input.name = "jobsDb"
    /\ Authored.brandAccent.lightness > LightThreshold
    /\ Decorated.brandAccentHover.lightness > LightThreshold
    /\ Lightness.brandAccent = "dark"
    /\ Lightness.brandAccentHover = "dark"

\* The members of the set S of numbers, in ascending order.
RECURSIVE Ascending(_)
Ascending(S) ==
    IF S = {} THEN <<>>
    ELSE LET m == CHOOSE x \in S : \A y \in S : x <= y
         IN  <<m>> \o Ascending(S \ {m})

WebFontNamed == Returned /\ input.typography.webFont \notin {"null", ""}

FontWeightValues == {input.typography.fontWeight[k] : k \in FontWeightKeys}

\* C4: with a web font named, webFonts holds exactly one link descriptor, whose
\* weights are the fontWeight values sorted ascending with duplicates removed.
C4_WeightsSortedDeduplicated ==
    WebFontNamed =>
        /\ Len(theme.runtime.webFonts) = 1
        /\ theme.runtime.webFonts[1].linkTag.weights = Ascending(FontWeightValues)

\* The number of entries of the sequence s equal to x.
Count(s, x) == Cardinality({i \in DOMAIN s : s[i] = x})

\* What makeWebFonts does instead: the one link descriptor lists all three
\* fontWeight values, duplicates kept, ascending by their decimal strings
\* (JavaScript's default sort order).
WeightsSortedAsStringsAllKept ==
    WebFontNamed =>
        /\ Len(theme.runtime.webFonts) = 1
        /\ LET weights == theme.runtime.webFonts[1].linkTag.weights
               fw == input.typography.fontWeight
           IN  /\ Len(weights) = 3
               /\ \A w \in Weights :
                    Count(weights, w) = Cardinality({k \in FontWeightKeys : fw[k] = w})
               /\ \A i, j \in 1..Len(weights) :
                    i < j => ~stringLess(digits(weights[j]), digits(weights[i]))

\* Two equal weights declared after a larger one: both are listed, before it.
DuplicateWeightsListed ==
    /\ WebFontNamed
    /\ input.typography.fontWeight =
            [regular |-> 700, medium |-> 400, strong |-> 400]
    /\ theme.runtime.webFonts[1].linkTag.weights = <<400, 400, 700>>

\* C5: without a web font name (null or empty) webFonts is empty, whatever
\* the fontWeight table holds.
C5_NoWebFontNoLinks ==
    (Returned /\ input.typography.webFont \in {"null", ""})
        => theme.runtime.webFonts = <<>>

\* An empty web font name with a fontWeight table that is not the base one.
C5_Witness ==
    /\ Returned
    /\ input.typography.webFont = ""
    /\ input.typography.fontWeight.strong = 1000
    /\ theme.runtime.webFonts = <<>>

\* C6: the active variant of formAccent, brandAccent and critical is the base
\* colour darkened by 10% when the base is light and by 5% when it is not.
C6_ActiveVariant ==
    Returned =>
        \A base \in AccentRoles :
            LET l == Authored[base].lightness
            IN  Decorated[ActiveKey[base]] =
                    Color(IF l > LightThreshold THEN Max(0, l - 10) ELSE Max(0, l - 5))

\* A light critical darkened by 10% and a dark formAccent darkened by 5%.
C6_Witness ==
    /\ Returned
    /\ Authored.critical.lightness > LightThreshold
    /\ Decorated.criticalActive.lightness = Authored.critical.lightness - 10
    /\ Authored.formAccent.lightness <= LightThreshold
    /\ Decorated.formAccentActive.lightness = Authored.formAccent.lightness - 5

\* C7: the hover variant of formAccent, brandAccent and critical is the base
\* colour darkened by 5% when the base is light and lightened by 5% when it
\* is not.
C7_HoverVariant ==
    Returned =>
        \A base \in AccentRoles :
            LET l == Authored[base].lightness
            IN  Decorated[HoverKey[base]] =
                    Color(IF l > LightThreshold THEN Max(0, l - 5) ELSE Min(100, l + 5))

\* A light brandAccent darkened by 5% and a dark critical lightened by 5%.
C7_Witness ==
    /\ Returned
    /\ Authored.brandAccent.lightness > LightThreshold
    /\ Decorated.brandAccentHover.lightness = Authored.brandAccent.lightness - 5
    /\ Authored.critical.lightness <= LightThreshold
    /\ Decorated.criticalHover.lightness = Authored.critical.lightness + 5

\* The text definition in the slot <<"text", key>> or <<"heading", level>> of
\* a typography section.
DefinitionAt(typography, slot) ==
    IF slot[1] = "text" THEN typography.text[slot[2]]
    ELSE typography.heading.level[slot[2]]

\* C8: every breakpoint of every text and heading definition is normalised on
\* its own: the output has exactly capHeight and rows, rows is unchanged, a
\* capHeight input keeps its capHeight and a fontSize input gets
\* getCapHeight(fontSize, fontMetrics).
C8_PerBreakpointCapHeight ==
    Returned =>
        \A slot \in TextSlots, bp \in TextBreakpoints :
            LET in == DefinitionAt(input.typography, slot)[bp]
                out == DefinitionAt(theme.treatTheme.typography, slot)[bp]
            IN  /\ DOMAIN out = {"capHeight", "rows"}
                /\ out.rows = in.rows
                /\ "capHeight" \in DOMAIN in => out.capHeight = in.capHeight
                /\ "fontSize" \in DOMAIN in =>
                        out.capHeight =
                            getCapHeight(in.fontSize, input.typography.fontMetrics)

\* A definition whose mobile breakpoint is given as capHeight and whose tablet
\* breakpoint is given as fontSize, with different rows.
C8_Witness ==
    /\ Returned
    /\ input.typography.text.small =
            [mobile |-> CapHeightText(1000, 5), tablet |-> FontSizeText(1600, 6)]
    /\ theme.treatTheme.typography.text.small =
            [mobile |-> CapHeightText(1000, 5), tablet |-> CapHeightText(1138, 6)]

\* The key of the light variant of a background role.
LightKey ==
    [info |-> "infoLight", promote |-> "promoteLight", critical |-> "criticalLight",
     positive |-> "positiveLight", caution |-> "cautionLight",
     neutral |-> "neutralLight"]

\* C19: the decorated background palette has, for info, promote, critical,
\* positive, caution and neutral, the key <role>Light with the light variant
\* of the authored colour of that role, and besides the authored keys and
\* the hover and active variants it has no other key.
C19_LightVariants ==
    Returned =>
        /\ \A role \in DOMAIN LightKey :
                Decorated[LightKey[role]] = getLightVariant(Authored[role])
        /\ DOMAIN Decorated \ (DOMAIN Authored \cup Range(HoverKey) \cup Range(ActiveKey))
                = Range(LightKey)

\* An authored info colour that is not the base theme's: infoLight is its
\* light variant, lighter than it, and brandAccent has no light variant.
C19_Witness ==
    /\ Returned
    /\ Authored.info # BaseBackground.info
    /\ Decorated.infoLight = getLightVariant(Authored.info)
    /\ Decorated.infoLight.lightness > Authored.info.lightness
    /\ Authored.caution # Authored.positive
    /\ "brandAccentLight" \notin DOMAIN Decorated

\* The colour a key of the decorated palette is classified by: the base colour
\* for a hover or active variant, the colour of the key itself otherwise.
ReferenceKey(k) ==
    IF \E base \in AccentRoles : k \in {HoverKey[base], ActiveKey[base]}
        THEN CHOOSE base \in AccentRoles : k \in {HoverKey[base], ActiveKey[base]}
        ELSE k

JobsDbOverrideApplies(k) ==
    /\ input.name = "jobsDb"
    /\ k \in {"brandAccent", "brandAccentHover", "brandAccentActive"}

\* The keys of backgroundLightness are those of the decorated palette, the 15
\* authored ones with the 6 hover and active and the 6 light variants.
LightnessKeysOfDecoratedPalette ==
    Returned =>
        /\ DOMAIN Lightness = DOMAIN Decorated
        /\ DOMAIN Lightness =
                BackgroundKeys \cup Range(HoverKey) \cup Range(ActiveKey)
                    \cup Range(LightKey)
        /\ Cardinality(DOMAIN Authored) = 15
        /\ Cardinality(DOMAIN Lightness) = 27

\* C25: whenever makeBraidTheme returns, backgroundLightness has exactly the
\* 27 keys of the decorated background palette, and every value is 'light' or
\* 'dark': 'dark' under the jobsDb override, and otherwise the classification
\* of the reference colour of the key, which for a hover or active variant is
\* its base colour.
C25_LightnessOfReferenceColour ==
    /\ LightnessKeysOfDecoratedPalette
    /\ Returned =>
            \A k \in DOMAIN Lightness :
                /\ Lightness[k] \in {"light", "dark"}
                /\ Lightness[k] =
                        IF JobsDbOverrideApplies(k) THEN "dark"
                        ELSE Classify(Decorated[ReferenceKey(k)].lightness)

\* What holds instead: the classification follows referenceColorMap, in which
\* the variants of critical are missing and so refer to themselves.
LightnessOfMappedReferenceColour ==
    /\ LightnessKeysOfDecoratedPalette
    /\ Returned =>
            \A k \in DOMAIN Lightness :
                /\ Lightness[k] \in {"light", "dark"}
                /\ Lightness[k] =
                        IF JobsDbOverrideApplies(k) THEN "dark"
                        ELSE IF ReferenceKey(k) = "critical"
                            THEN Classify(Decorated[k].lightness)
                            ELSE Classify(Decorated[ReferenceKey(k)].lightness)

----------------------------------------------------------------------------
(* makeBraidTheme, invoked several times *)

\* The token trees of the repeated invocations: two themes, each as authored
\* and with an undefined info background, and the base theme without a web
\* font.
CallSamples ==
    {ColorTokenTree(n, o) :
        n \in {"jobsDb", "seekAnz"},
        o \in {<<>>} \cup [{"info"} -> {Undefined}]}
    \cup {FontTokenTree("", BaseTokens.typography.fontWeight)}

RepeatInit ==
    /\ input = BaseTokens
    /\ status = "idle"
    /\ theme = EmptyTheme
    /\ env = [config |-> "ok", hasModule |-> FALSE, exports |-> <<>>]
    /\ pc = "off"
    /\ next = 1
    /\ stack = <<>>
    /\ docs = <<>>
    /\ log = <<>>
    /\ RatingOff
    /\ calls = <<>>
    /\ TooltipOff

\* One more invocation of makeBraidTheme, on any of the trees.
MakeBraidThemeAgain ==
    /\ Len(calls) < MaxCalls
    /\ \E treatTokens \in CallSamples, onUndefined \in OnUndefined :
        LET result == makeBraidTheme(treatTokens, onUndefined)
        IN  /\ input' = treatTokens
            /\ status' = result.status
            /\ theme' = result.theme
            /\ calls' = Append(calls, [treatTokens |-> treatTokens, result |-> result])
    /\ UNCHANGED <<docsVars, ratingVars, tooltipVars>>

RepeatNext == MakeBraidThemeAgain

RepeatSpec == RepeatInit /\ [][RepeatNext]_vars

----------------------------------------------------------------------------
(* The type doc extractor: what the compiler's type checker answers *)

MAX_DEPTH == 10

aliasWhitelist == {"ResponsiveProp"}

propBlacklist == {"key"}

\* stringAliases: every key maps to itself.
stringAliases ==
    [k \in {"boolean", "CSSProperties",
            "string | number | boolean | ClassDictionary | ClassArray"} |-> k]

\* A property symbol: its name, the Optional flag, its JSDoc tags and
\* documentation comment, the display string of the type at its declaration
\* and its (non-nullable) type in the context of the props object.
Prop(name, optional, type, declaredAs, tags) ==
    [name |-> name, optional |-> optional, type |-> type,
     declaredAs |-> declaredAs, tags |-> tags, comment |-> "about " \o name]

Tag(name) == [name |-> name, text |-> ""]

\* A type: its display string (typeToString), its alias symbol ("" when it
\* has none) and alias type arguments, whether it is a union and of which
\* types, whether it is a class or interface, its properties, and whether the
\* checker fails on it (an unresolvable type).
Type(str, alias, aliasTypeArguments, isUnion, types, isClassOrInterface, properties) ==
    [str |-> str, aliasSymbol |-> alias, aliasTypeArguments |-> aliasTypeArguments,
     isUnion |-> isUnion, types |-> types, isClassOrInterface |-> isClassOrInterface,
     properties |-> properties, unresolvable |-> FALSE]

Primitive(str) == Type(str, "", <<>>, FALSE, <<>>, FALSE, <<>>)

UnionType(str, alias, aliasTypeArguments, types) ==
    Type(str, alias, aliasTypeArguments, TRUE, types, FALSE, <<>>)

InterfaceType(str, properties) == Type(str, "", <<>>, FALSE, <<>>, TRUE, properties)

ReactElementString == "ReactElement<any, string | JSXElementConstructor<any>>"

\* The types of the program the model extracts docs from, by a type id.
Types ==
    [string |-> Primitive("string"),
     number |-> Primitive("number"),
     any |-> Primitive("any"),
     false |-> Primitive("false"),
     true |-> Primitive("true"),
     emptyObject |-> Primitive("{}"),
     small |-> Primitive("\"small\""),
     large |-> Primitive("\"large\""),
     boolean |-> UnionType("boolean", "", <<>>, <<"false", "true">>),
     ReactElement |->
        InterfaceType(ReactElementString,
            <<Prop("type", FALSE, "any", "any", <<>>),
              Prop("props", FALSE, "any", "any", <<>>),
              Prop("key", FALSE, "string", "Key | null", <<>>)>>),
     ReactNodeArray |-> InterfaceType("ReactNodeArray", <<>>),
     ReactNode |->
        UnionType("ReactNode", "ReactNode", <<>>,
            <<"string", "number", "false", "true", "emptyObject", "ReactElement",
              "ReactNodeArray">>),
     ReactNodeNoStrings |->
        UnionType("ReactNodeNoStrings", "ReactNodeNoStrings", <<>>,
            <<"false", "true", "ReactElement", "ReactNodeArray">>),
     \* The type of an optional children?: ReactNode property: the non-nullable
     \* union has no alias and is displayed member by member.
     NonNullReactNode |->
        UnionType("string | number | boolean | {} | " \o ReactElementString
                      \o " | ReactNodeArray", "", <<>>,
            <<"string", "number", "false", "true", "emptyObject", "ReactElement",
              "ReactNodeArray">>),
     \* The four members of ReactNodeNoStrings followed by one more member.
     IconOrText |->
        UnionType("string | boolean | " \o ReactElementString \o " | ReactNodeArray",
            "", <<>>,
            <<"false", "true", "ReactElement", "ReactNodeArray", "string">>),
     \* type ClassValue = string | number | boolean | ClassDictionary | ClassArray
     ClassValue |->
        UnionType("string | number | boolean | ClassDictionary | ClassArray",
            "ClassValue", <<>>,
            <<"string", "number", "false", "true", "ClassDictionary", "ClassArray">>),
     ClassDictionary |-> InterfaceType("ClassDictionary", <<>>),
     ClassArray |-> InterfaceType("ClassArray", <<>>),
     Space |-> UnionType("Space", "Space", <<>>, <<"small", "large">>),
     ResponsiveSpace |->
        UnionType("ResponsiveProp<Space>", "ResponsiveProp", <<"Space">>,
            <<"small", "large">>),
     \* type ResponsiveProp = "small" | "large", an alias without type arguments
     ResponsiveAlign |->
        UnionType("ResponsiveProp", "ResponsiveProp", <<>>, <<"small", "large">>),
     CSSProperties |->
        InterfaceType("CSSProperties",
            <<Prop("color", TRUE, "string", "string", <<>>)>>),
     \* interface ListNode { key: string; value: number; done: boolean;
     \*                      children?: ReactNode; next?: ListNode }
     ListNode |->
        InterfaceType("ListNode",
            <<Prop("key", FALSE, "string", "string", <<>>),
              Prop("value", FALSE, "number", "number", <<>>),
              Prop("done", FALSE, "boolean", "boolean", <<>>),
              Prop("children", TRUE, "NonNullReactNode", "ReactNode", <<>>),
              Prop("next", TRUE, "ListNode", "ListNode", <<Tag("see")>>)>>),
     \* type Expr = Leaf | Pair; interface Pair { first: Expr }
     Expr |-> UnionType("Expr", "Expr", <<>>, <<"Leaf", "Pair">>),
     Leaf |-> InterfaceType("Leaf", <<Prop("value", FALSE, "string", "string", <<>>)>>),
     Pair |-> InterfaceType("Pair", <<Prop("first", FALSE, "Expr", "Expr", <<>>)>>),
     BoxProps |->
        InterfaceType("BoxProps",
            <<Prop("space", TRUE, "ResponsiveSpace", "ResponsiveProp<Space>", <<>>),
              Prop("gap", TRUE, "Space", "ResponsiveProp", <<>>),
              Prop("children", FALSE, "ReactNode", "ReactNode", <<>>),
              Prop("icon", TRUE, "ReactNodeNoStrings", "ReactNodeNoStrings", <<>>),
              Prop("style", TRUE, "CSSProperties", "CSSProperties",
                   <<Tag("deprecatedSince")>>),
              Prop("label", TRUE, "IconOrText", "IconOrText", <<>>),
              Prop("className", TRUE, "ClassValue", "ClassValue", <<>>),
              Prop("hidden", TRUE, "boolean", "boolean",
                   <<Tag("Deprecated"), Tag("see")>>)>>),
     Unresolvable |-> [Primitive("unresolvable") EXCEPT !.unresolvable = TRUE],
     BrokenProps |->
        InterfaceType("BrokenProps",
            <<Prop("label", FALSE, "string", "string", <<>>),
              Prop("value", FALSE, "Unresolvable", "unresolvable", <<>>)>>)]

\* A parameter symbol of a call signature.
Param(name, type, hasValueDeclaration) ==
    [name |-> name, type |-> type, valueDeclaration |-> hasValueDeclaration]

Signature(parameters, returnType) ==
    [parameters |-> parameters, returnType |-> returnType]

\* The symbols the components module may export, by name, each with the call
\* signatures of its type.
Exports ==
    [Box |-> <<Signature(<<Param("props", "BoxProps", TRUE)>>, "ReactElement")>>,
     List |-> <<Signature(<<>>, "ReactElement"),
                Signature(<<Param("node", "ListNode", TRUE)>>, "ReactElement")>>,
     Broken |-> <<Signature(<<Param("props", "BrokenProps", TRUE)>>, "ReactElement")>>,
     \* No call signature, only signatures without parameters, and a props
     \* parameter without a declaration.
     Spacer |-> <<>>,
     Divider |-> <<Signature(<<>>, "ReactElement")>>,
     Ghost |-> <<Signature(<<Param("props", "BoxProps", FALSE)>>, "ReactElement")>>,
     \* function Overloaded(ref: any, props: BoxProps): ReactElement;
     \* function Overloaded(item: Leaf): ReactElement;
     Overloaded |-> <<Signature(<<Param("ref", "any", TRUE),
                                  Param("props", "BoxProps", TRUE)>>, "ReactElement"),
                      Signature(<<Param("item", "Leaf", TRUE)>>, "ReactElement")>>,
     \* function useExpr(expr: Expr, align: ResponsiveProp, node: ListNode): boolean;
     \* function useExpr(text: string): string;
     useExpr |-> <<Signature(<<Param("expr", "Expr", TRUE),
                               Param("align", "ResponsiveAlign", TRUE),
                               Param("node", "ListNode", TRUE)>>, "boolean"),
                   Signature(<<Param("text", "string", TRUE)>>, "string")>>,
     useBroken |-> <<>>]

ExportNames == DOMAIN Exports

\* moduleExport.getName().startsWith('use'), over the export names of the model.
startsWithUse(name) == name \in {"useExpr", "useBroken"}

----------------------------------------------------------------------------
(* The type doc extractor: docs of one export *)

\* A NormalisedPropType that is a string.  (The other forms are records with
\* type "union", "alias" or "interface"; a string is wrapped the same way.)
StringNode(text) == [type |-> "string", text |-> text]

\* A call frame: the function, what it is called on (a type id, or an export
\* name for getHookDocs and getComponentDocs), its depth and extractComments
\* arguments, and the values its calls have returned so far.
Frame(fn, subject, depth, extractComments) ==
    [fn |-> fn, subject |-> subject, depth |-> depth,
     extractComments |-> extractComments, acc |-> <<>>]

NoSymbol == Param("", "", FALSE)

\* A faulty variant of propsParamFrom: the loop ends at the first signature
\* that has a parameter.
RECURSIVE propsParamFromFirstOnly(_, _)
propsParamFromFirstOnly(callSignatures, i) ==
    IF i > Len(callSignatures) THEN NoSymbol
    ELSE LET params == callSignatures[i].parameters
         IN  IF Len(params) = 0 THEN propsParamFromFirstOnly(callSignatures, i + 1)
             ELSE IF params[1].name = "props" \/ Len(params) = 1 THEN params[1]
             ELSE NoSymbol

\* The for loop of getComponentPropsType, from signature i on.
RECURSIVE propsParamFrom(_, _)
propsParamFrom(callSignatures, i) ==
    IF i > Len(callSignatures) THEN NoSymbol
    ELSE LET params == callSignatures[i].parameters
         IN  IF Len(params) = 0 THEN propsParamFrom(callSignatures, i + 1)
             ELSE IF params[1].name = "props" \/ Len(params) = 1 THEN params[1]
             ELSE propsParamFrom(callSignatures, i + 1)

getComponentPropsType(exp) == propsParamFrom(Exports[exp], 1)

\* A faulty variant of noPropsObject: the declaration of the props symbol is
\* not looked at.
noPropsObjectUndeclared(exp) == getComponentPropsType(exp) = NoSymbol

\* !propsObj || !propsObj.valueDeclaration
noPropsObject(exp) ==
    LET propsObj == getComponentPropsType(exp)
    IN  propsObj = NoSymbol \/ ~propsObj.valueDeclaration

\* The display strings of the members of a union.
memberStrings(t) ==
    [i \in 1..Len(Types[t].types) |-> Types[Types[t].types[i]].str]

ReactNodeSignature ==
    <<"string", "number", "false", "true", "{}", ReactElementString>>

ReactNodeNoStringsSignature ==
    <<"false", "true", ReactElementString, "ReactNodeArray">>

\* types.slice(0, 6)
slice6(types) == SubSeq(types, 1, Min(6, Len(types)))

\* A faulty variant of normaliseCase: the depth is never checked.
normaliseCaseAnyDepth(t, depth) ==
    LET type == Types[t]
    IN  IF type.str \in DOMAIN stringAliases THEN "stringAlias"
        ELSE IF type.aliasSymbol # "" /\ type.aliasSymbol \in aliasWhitelist THEN "alias"
        ELSE IF type.isUnion THEN
            IF slice6(memberStrings(t)) = ReactNodeSignature THEN "ReactNode"
            ELSE IF memberStrings(t) = ReactNodeNoStringsSignature
                THEN "ReactNodeNoStrings"
            ELSE "union"
        ELSE IF type.isClassOrInterface THEN "interface"
        ELSE "string"

\* A faulty variant of normaliseCase: the ReactNode sequence is compared
\* with all the members of the union.
normaliseCaseWholeUnion(t, depth) ==
    LET type == Types[t]
    IN  IF type.str \in DOMAIN stringAliases THEN "stringAlias"
        ELSE IF depth > MAX_DEPTH THEN "maxDepth"
        ELSE IF type.aliasSymbol # "" /\ type.aliasSymbol \in aliasWhitelist THEN "alias"
        ELSE IF type.isUnion THEN
            IF memberStrings(t) = ReactNodeSignature THEN "ReactNode"
            ELSE IF memberStrings(t) = ReactNodeNoStringsSignature
                THEN "ReactNodeNoStrings"
            ELSE "union"
        ELSE IF type.isClassOrInterface THEN "interface"
        ELSE "string"

\* A faulty variant of normaliseCase: every alias is kept, whitelisted or not.
normaliseCaseAnyAlias(t, depth) ==
    LET type == Types[t]
    IN  IF type.str \in DOMAIN stringAliases THEN "stringAlias"
        ELSE IF depth > MAX_DEPTH THEN "maxDepth"
        ELSE IF type.aliasSymbol # "" THEN "alias"
        ELSE IF type.isUnion THEN
            IF slice6(memberStrings(t)) = ReactNodeSignature THEN "ReactNode"
            ELSE IF memberStrings(t) = ReactNodeNoStringsSignature
                THEN "ReactNodeNoStrings"
            ELSE "union"
        ELSE IF type.isClassOrInterface THEN "interface"
        ELSE "string"

\* A faulty variant of normaliseCase: no display string is passed through.
normaliseCaseNoStringAliases(t, depth) ==
    LET type == Types[t]
    IN  IF depth > MAX_DEPTH THEN "maxDepth"
        ELSE IF type.aliasSymbol # "" /\ type.aliasSymbol \in aliasWhitelist THEN "alias"
        ELSE IF type.isUnion THEN
            IF slice6(memberStrings(t)) = ReactNodeSignature THEN "ReactNode"
            ELSE IF memberStrings(t) = ReactNodeNoStringsSignature
                THEN "ReactNodeNoStrings"
            ELSE "union"
        ELSE IF type.isClassOrInterface THEN "interface"
        ELSE "string"

\* A faulty variant of normaliseCase: the depth may exceed MAX_DEPTH by two.
normaliseCaseTwoDeeper(t, depth) ==
    LET type == Types[t]
    IN  IF type.str \in DOMAIN stringAliases THEN "stringAlias"
        ELSE IF depth > MAX_DEPTH + 2 THEN "maxDepth"
        ELSE IF type.aliasSymbol # "" /\ type.aliasSymbol \in aliasWhitelist THEN "alias"
        ELSE IF type.isUnion THEN
            IF slice6(memberStrings(t)) = ReactNodeSignature THEN "ReactNode"
            ELSE IF memberStrings(t) = ReactNodeNoStringsSignature
                THEN "ReactNodeNoStrings"
            ELSE "union"
        ELSE IF type.isClassOrInterface THEN "interface"
        ELSE "string"

\* The branch normaliseType takes on the type t at this depth.
normaliseCase(t, depth) ==
    LET type == Types[t]
    IN  IF type.str \in DOMAIN stringAliases THEN "stringAlias"
        ELSE IF depth > MAX_DEPTH THEN "maxDepth"
        ELSE IF type.aliasSymbol # "" /\ type.aliasSymbol \in aliasWhitelist THEN "alias"
        ELSE IF type.isUnion THEN
            IF slice6(memberStrings(t)) = ReactNodeSignature THEN "ReactNode"
            ELSE IF memberStrings(t) = ReactNodeNoStringsSignature
                THEN "ReactNodeNoStrings"
            ELSE "union"
        ELSE IF type.isClassOrInterface THEN "interface"
        ELSE "string"

\* A faulty variant of keptProperties: no property is left out.
keptPropertiesAll(t) == Types[t].properties

\* The properties normalizeInterface maps over.
keptProperties(t) ==
    SelectSeq(Types[t].properties, LAMBDA prop : prop.name \notin propBlacklist)

CallItem(frame) == [kind |-> "call", frame |-> frame]

ValueItem(value) == [kind |-> "value", value |-> value]

\* The calls of getHookDocs on the export exp with this call signature: one
\* per parameter, in order, then one for the return type, each from depth 0.
signatureCalls(callSignature) ==
    LET parameters == callSignature.parameters
    IN  [i \in 1..(Len(parameters) + 1) |->
            CallItem(Frame("normaliseType",
                IF i <= Len(parameters)
                    THEN parameters[i].type ELSE callSignature.returnType,
                0, FALSE))]

\* A faulty variant of hookCalls: the last call signature is documented.
hookCallsLastSignature(exp) == signatureCalls(Exports[exp][Len(Exports[exp])])

\* getHookDocs documents type.getCallSignatures()[0].
hookCalls(exp) == signatureCalls(Exports[exp][1])

\* A faulty variant of unionCalls: the members are mapped last to first.
unionCallsReversed(type, depth) ==
    [i \in 1..Len(type.types) |->
        CallItem(Frame("normaliseType", type.types[Len(type.types) + 1 - i],
                       depth + 1, FALSE))]

\* The union branch of normaliseType: type.types.map, one call per member,
\* in member order, one level deeper.
unionCalls(type, depth) ==
    [i \in 1..Len(type.types) |->
        CallItem(Frame("normaliseType", type.types[i], depth + 1, FALSE))]

\* What the frame f evaluates, in order: calls of normaliseType or
\* normalizeInterface, and values it has without a call.
Items(f) ==
    IF f.fn = "getHookDocs" THEN hookCalls(f.subject)
    ELSE IF f.fn = "getComponentDocs" THEN
        IF noPropsObject(f.subject) THEN <<>>
        ELSE <<CallItem(Frame("normalizeInterface",
                    getComponentPropsType(f.subject).type, 0, TRUE))>>
    ELSE IF f.fn = "normalizeInterface" THEN
        LET props == keptProperties(f.subject)
        IN  [i \in 1..Len(props) |->
                IF props[i].declaredAs \in aliasWhitelist
                    THEN ValueItem(StringNode(props[i].declaredAs))
                    ELSE CallItem(Frame("normaliseType", props[i].type,
                                        f.depth + 1, FALSE))]
    ELSE
        LET case == normaliseCase(f.subject, f.depth)
            type == Types[f.subject]
        IN  IF case = "alias" THEN
                [i \in 1..Len(type.aliasTypeArguments) |->
                    CallItem(Frame("normaliseType", type.aliasTypeArguments[i],
                                   f.depth + 1, FALSE))]
            ELSE IF case = "union" THEN unionCalls(type, f.depth)
            ELSE IF case = "interface" THEN
                <<CallItem(Frame("normalizeInterface", f.subject,
                                 f.depth + 1, FALSE))>>
            ELSE <<>>

\* A faulty variant of isDeprecatedTag: the case of the letters counts.
isDeprecatedTagExact(name) == name = "deprecated"

\* /^deprecated$/i.test(name), over the tag names of the model.
isDeprecatedTag(name) == name \in {"deprecated", "Deprecated", "DEPRECATED"}

\* The entry normalizeInterface makes for a property, given its normalised type.
propertyEntry(prop, type, extractComments) ==
    LET tags == SelectSeq(prop.tags, LAMBDA tag : tag.name # "see")
    IN  [propName |-> prop.name,
         required |-> ~prop.optional,
         type |-> type,
         deprecated |-> \E i \in DOMAIN tags : isDeprecatedTag(tags[i].name),
         tags |-> tags,
         description |-> IF extractComments THEN prop.comment ELSE ""]

\* What the frame f returns once all its items are evaluated (f.acc).
Value(f) ==
    IF f.fn = "getHookDocs" THEN
        [exportType |-> "hook",
         params |-> SubSeq(f.acc, 1, Len(f.acc) - 1),
         returnType |-> f.acc[Len(f.acc)]]
    ELSE IF f.fn = "getComponentDocs" THEN
        IF noPropsObject(f.subject)
            THEN [type |-> "interface", props |-> <<>>]
            ELSE [exportType |-> "component", props |-> f.acc[1]]
    ELSE IF f.fn = "normalizeInterface" THEN
        LET props == keptProperties(f.subject)
        IN  [type |-> "interface",
             props |->
                [name \in {props[i].name : i \in DOMAIN props} |->
                    LET i == CHOOSE j \in DOMAIN props : props[j].name = name
                    IN  propertyEntry(props[i], f.acc[i], f.extractComments)]]
    ELSE
        LET case == normaliseCase(f.subject, f.depth)
            type == Types[f.subject]
        IN  IF case = "stringAlias" THEN StringNode(stringAliases[type.str])
            ELSE IF case = "maxDepth" THEN StringNode(type.str)
            ELSE IF case = "alias" THEN
                [type |-> "alias", alias |-> type.aliasSymbol, params |-> f.acc]
            ELSE IF case = "ReactNode" THEN StringNode("ReactNode")
            ELSE IF case = "ReactNodeNoStrings" THEN StringNode("ReactNodeNoStrings")
            ELSE IF case = "union" THEN [type |-> "union", types |-> f.acc]
            ELSE IF case = "interface" THEN f.acc[1]
            ELSE StringNode(type.str)

\* The frame f throws: the checker fails on an unresolvable type, or
\* getHookDocs reads the parameters of a call signature that is not there.
Throws(f) ==
    \/ f.fn = "normaliseType" /\ Types[f.subject].unresolvable
    \/ f.fn = "getHookDocs" /\ Len(Exports[f.subject]) = 0

----------------------------------------------------------------------------
(* The type doc extractor: setup and the export loop *)

\* The sequences of at most n distinct members of S.
RECURSIVE DistinctSeqs(_, _)
DistinctSeqs(S, n) ==
    IF n = 0 THEN {<<>>}
    ELSE LET shorter == DistinctSeqs(S, n - 1)
         IN  shorter \cup
                UNION {{Append(q, x) : x \in S \ Range(q)} : q \in shorter}

\* The compiler config is read and parsed, cannot be read, or parses with errors.
Configs == {"ok", "unreadable", "invalid"}

LogEntry(level, text) == [level |-> level, text |-> text]

Top == stack[Len(stack)]

\* The stack with its top frame replaced by f.
WithTop(f) == [stack EXCEPT ![Len(stack)] = f]

\* The top frame has evaluated all its items.
Complete(f) == Len(f.acc) = Len(Items(f))

\* The console.warn of normaliseType when it stops at the maximum depth.
Warnings(f) ==
    IF f.fn = "normaliseType" /\ normaliseCase(f.subject, f.depth) = "maxDepth"
        THEN <<LogEntry("warn", "Max depth reached normalising type")>>
        ELSE <<>>

DocsInit ==
    /\ input = BaseTokens
    /\ status = "idle"
    /\ theme = EmptyTheme
    /\ env \in [config : Configs, hasModule : BOOLEAN,
                exports : DistinctSeqs(ExportNames, MaxExports)]
    /\ pc = "readConfig"
    /\ next = 1
    /\ stack = <<>>
    /\ docs = <<>>
    /\ log = <<>>
    /\ RatingOff
    /\ calls = <<>>
    /\ TooltipOff

\* ts.readConfigFile: an error is logged and thrown.
ReadConfig ==
    /\ pc = "readConfig"
    /\ IF env.config = "unreadable"
        THEN /\ log' = Append(log, LogEntry("error", "readConfigFile"))
             /\ pc' = "thrown"
        ELSE /\ pc' = "parseConfig"
             /\ UNCHANGED log
    /\ UNCHANGED <<env, next, stack, docs>>
    /\ UNCHANGED <<themeVars, ratingVars, calls, tooltipVars>>

\* A faulty variant of ParseConfig: the first error is logged and the
\* extractor goes on.
ParseConfigLogsOnly ==
    /\ pc = "parseConfig"
    /\ log' = IF env.config = "invalid"
                THEN Append(log, LogEntry("error", "parseJsonConfigFileContent"))
                ELSE log
    /\ pc' = "createProgram"
    /\ UNCHANGED <<env, next, stack, docs>>
    /\ UNCHANGED <<themeVars, ratingVars, calls, tooltipVars>>

\* ts.parseJsonConfigFileContent: the first error is logged and thrown.
ParseConfig ==
    /\ pc = "parseConfig"
    /\ IF env.config = "invalid"
        THEN /\ log' = Append(log, LogEntry("error", "parseJsonConfigFileContent"))
             /\ pc' = "thrown"
        ELSE /\ pc' = "createProgram"
             /\ UNCHANGED log
    /\ UNCHANGED <<env, next, stack, docs>>
    /\ UNCHANGED <<themeVars, ratingVars, calls, tooltipVars>>

\* ts.createProgram and the search for the components module: without its
\* source file or module symbol the extractor returns undefined.
CreateProgram ==
    /\ pc = "createProgram"
    /\ pc' = IF env.hasModule THEN "exports" ELSE "returnedUndefined"
    /\ UNCHANGED <<env, next, stack, docs, log>>
    /\ UNCHANGED <<themeVars, ratingVars, calls, tooltipVars>>

\* The export loop enters its try block for the next export.
StartExport ==
    /\ pc = "exports"
    /\ stack = <<>>
    /\ next <= Len(env.exports)
    /\ LET name == env.exports[next]
       IN  stack' = <<Frame(IF startsWithUse(name) THEN "getHookDocs"
                                                   ELSE "getComponentDocs",
                            name, 0, FALSE)>>
    /\ UNCHANGED <<env, pc, next, docs, log>>
    /\ UNCHANGED <<themeVars, ratingVars, calls, tooltipVars>>

\* The innermost frame calls normaliseType or normalizeInterface.
Call ==
    /\ stack # <<>>
    /\ ~Throws(Top)
    /\ ~Complete(Top)
    /\ LET item == Items(Top)[Len(Top.acc) + 1]
       IN  /\ item.kind = "call"
           /\ stack' = Append(stack, item.frame)
    /\ UNCHANGED <<env, pc, next, docs, log>>
    /\ UNCHANGED <<themeVars, ratingVars, calls, tooltipVars>>

\* normalizeInterface takes a whitelisted alias name as a property's type.
UseTypeAlias ==
    /\ stack # <<>>
    /\ ~Throws(Top)
    /\ ~Complete(Top)
    /\ LET item == Items(Top)[Len(Top.acc) + 1]
       IN  /\ item.kind = "value"
           /\ stack' = WithTop([Top EXCEPT !.acc = Append(@, item.value)])
    /\ UNCHANGED <<env, pc, next, docs, log>>
    /\ UNCHANGED <<themeVars, ratingVars, calls, tooltipVars>>

\* The innermost frame returns its value to its caller.
Return ==
    /\ Len(stack) > 1
    /\ ~Throws(Top)
    /\ Complete(Top)
    /\ LET caller == stack[Len(stack) - 1]
           rest == SubSeq(stack, 1, Len(stack) - 2)
       IN  stack' = Append(rest, [caller EXCEPT !.acc = Append(@, Value(Top))])
    /\ log' = log \o Warnings(Top)
    /\ UNCHANGED <<env, pc, next, docs>>
    /\ UNCHANGED <<themeVars, ratingVars, calls, tooltipVars>>

\* getHookDocs or getComponentDocs returns: the export's docs are kept under
\* its name.
AddExport ==
    /\ Len(stack) = 1
    /\ ~Throws(Top)
    /\ Complete(Top)
    /\ docs' = Merge(docs, [name \in {Top.subject} |-> Value(Top)])
    /\ stack' = <<>>
    /\ next' = next + 1
    /\ UNCHANGED <<env, pc, log>>
    /\ UNCHANGED <<themeVars, ratingVars, calls, tooltipVars>>

\* A faulty variant of Catch: the exception is thrown on and ends the run.
CatchRethrows ==
    /\ stack # <<>>
    /\ Throws(Top)
    /\ log' = log \o <<LogEntry("log", stack[1].subject), LogEntry("error", "e")>>
    /\ stack' = <<>>
    /\ pc' = "thrown"
    /\ UNCHANGED <<env, next, docs>>
    /\ UNCHANGED <<themeVars, ratingVars, calls, tooltipVars>>

\* An exception in the innermost frame reaches the catch block of the export
\* loop: the failure is logged and the export yields nothing.
Catch ==
    /\ stack # <<>>
    /\ Throws(Top)
    /\ log' = log \o <<LogEntry("log", stack[1].subject), LogEntry("error", "e")>>
    /\ stack' = <<>>
    /\ next' = next + 1
    /\ UNCHANGED <<env, pc, docs>>
    /\ UNCHANGED <<themeVars, ratingVars, calls, tooltipVars>>

\* Every export is handled: Object.assign merges the docs and they are returned.
Finish ==
    /\ pc = "exports"
    /\ stack = <<>>
    /\ next > Len(env.exports)
    /\ pc' = "returned"
    /\ UNCHANGED <<env, next, stack, docs, log>>
    /\ UNCHANGED <<themeVars, ratingVars, calls, tooltipVars>>

DocsNext ==
    \/ ReadConfig
    \/ ParseConfig
    \/ CreateProgram
    \/ StartExport
    \/ Call
    \/ UseTypeAlias
    \/ Return
    \/ AddExport
    \/ Catch
    \/ Finish

DocsSpec == DocsInit /\ [][DocsNext]_vars /\ WF_vars(DocsNext)

----------------------------------------------------------------------------
(* The type doc extractor's claims *)

\* The export names the catch block has logged a failure for.
FailedNames == {log[i].text : i \in {j \in DOMAIN log : log[j].level = "log"}}

\* The exports of the model whose docs cannot be produced: Broken has a
\* property of an unresolvable type, useBroken has no call signature.
ThrowingExports == {"Broken", "useBroken"}

\* C9: an export whose docs throw is logged and left out, the others are
\* still documented: the extractor returns docs for exactly the exports
\* that did not throw, and no export makes the run throw.
C9_FailedExportsOmitted ==
    /\ pc = "thrown" => env.config # "ok"
    /\ pc = "returned" =>
        /\ DOMAIN docs = Range(env.exports) \ ThrowingExports
        /\ FailedNames = Range(env.exports) \cap ThrowingExports

\* Two exports of which the first throws: the second is documented.
C9_Witness ==
    /\ pc = "returned"
    /\ env.exports = <<"Broken", "useExpr">>
    /\ DOMAIN docs = {"useExpr"}
    /\ FailedNames = {"Broken"}

\* No call is deeper than two past MAX_DEPTH, and no normaliseType frame
\* past MAX_DEPTH has made a call.
DepthBounded ==
    /\ Len(stack) <= MAX_DEPTH + 4
    /\ \A i \in DOMAIN stack :
        /\ stack[i].depth <= MAX_DEPTH + 2
        /\ (stack[i].fn = "normaliseType" /\ stack[i].depth > MAX_DEPTH)
            => (i = Len(stack) /\ stack[i].acc = <<>>)

\* A normaliseType frame past MAX_DEPTH on a resolvable type returns the
\* type's display string to its caller in its next step.
PastMaxDepthReturnsString ==
    (/\ stack # <<>>
     /\ Top.fn = "normaliseType"
     /\ Top.depth > MAX_DEPTH
     /\ ~Types[Top.subject].unresolvable)
        => /\ Len(stack') = Len(stack) - 1
           /\ LET caller == stack'[Len(stack')]
              IN  caller.acc[Len(caller.acc)] = StringNode(Types[Top.subject].str)

Ended == pc \in {"returned", "returnedUndefined", "thrown"}

\* C10: normaliseType terminates on every type, self-referential interfaces
\* and endlessly expanding unions included: a call past MAX_DEPTH makes no
\* further call and returns the display string, so the depth stays bounded
\* and every run of the extractor ends.
C10_NormaliseTypeTerminates ==
    /\ []DepthBounded
    /\ [][PastMaxDepthReturnsString]_vars
    /\ <>Ended

\* The node reached from an interface node by following its property next n times.
RECURSIVE FollowNext(_, _)
FollowNext(node, n) ==
    IF n = 0 THEN node ELSE FollowNext(node.props.next.type, n - 1)

\* The self-referential ListNode and the endlessly expanding Expr have been
\* documented: under six nested ListNode interfaces the property next is
\* the display string.
C10_Witness ==
    /\ pc = "returned"
    /\ env.exports = <<"List", "useExpr">>
    /\ FollowNext(docs.List.props, 5).type = "interface"
    /\ FollowNext(docs.List.props, 6) = StringNode("ListNode")
    /\ docs.useExpr.params[1].type = "union"

----------------------------------------------------------------------------
(* The claims about normaliseType and the export docs *)

\* The calls a frame of the stack has made and got a value from, each with
\* the value it returned: the frame called, its caller, and the value.
Returns ==
    {[frame |-> Items(stack[i])[j].frame, caller |-> stack[i],
      value |-> stack[i].acc[j]] :
        <<i, j>> \in {<<i, j>> \in (DOMAIN stack) \X (1..(MAX_DEPTH + MAX_DEPTH)) :
                        /\ j <= Len(stack[i].acc)
                        /\ Items(stack[i])[j].kind = "call"}}

\* The normaliseType calls among them.
NormaliseTypeReturns == {r \in Returns : r.frame.fn = "normaliseType"}

PassedThrough(t) == Types[t].str \in DOMAIN stringAliases

\* C11: a type whose display string is a key of stringAliases is normalised
\* to exactly that string at every depth, whatever else the type is: every
\* such call of normaliseType has returned the string, and no such call has
\* made a call of its own.
C11_StringAliasesPassThrough ==
    /\ \A r \in NormaliseTypeReturns :
            PassedThrough(r.frame.subject)
                => r.value = StringNode(Types[r.frame.subject].str)
    /\ \A i \in DOMAIN stack :
            (stack[i].fn = "normaliseType" /\ PassedThrough(stack[i].subject))
                => (i = Len(stack) /\ stack[i].acc = <<>>)

\* boolean, a union, has been passed through both at depth 1 and past
\* MAX_DEPTH in the same chain of calls.
C11_Witness ==
    /\ \E r \in NormaliseTypeReturns :
            /\ r.frame.subject = "boolean"
            /\ r.frame.depth > MAX_DEPTH
            /\ r.value = StringNode("boolean")
    /\ \E r \in NormaliseTypeReturns :
            /\ r.frame.subject = "boolean"
            /\ r.frame.depth = 1
            /\ r.value = StringNode("boolean")

\* The node is what normalising the type t at this depth starts with: the
\* display string for a passed-through type, past MAX_DEPTH and for a type
\* that is neither a union nor an interface, an alias node for a whitelisted
\* alias, an interface node with the properties of the interface that are
\* not blacklisted.
NormalisedRoot(node, t, depth) ==
    LET type == Types[t]
    IN  IF PassedThrough(t) \/ depth > MAX_DEPTH THEN node = StringNode(type.str)
        ELSE IF type.aliasSymbol \in aliasWhitelist
            THEN node.type = "alias" /\ node.alias = type.aliasSymbol
        ELSE IF type.isUnion THEN node.type \in {"union", "string"}
        ELSE IF type.isClassOrInterface THEN
            /\ node.type = "interface"
            /\ DOMAIN node.props =
                    {prop.name : prop \in Range(type.properties)} \ propBlacklist
        ELSE node = StringNode(type.str)

\* The union t matches neither the ReactNode nor the ReactNodeNoStrings
\* sequence of member display strings.
NonMatchingUnion(t) ==
    /\ Types[t].isUnion
    /\ slice6(memberStrings(t)) # ReactNodeSignature
    /\ memberStrings(t) # ReactNodeNoStringsSignature

\* The call returned a union node with one entry per member of the union,
\* the entry of a member being its normalisation one level deeper.
ExpandedMemberByMember(r) ==
    LET members == Types[r.frame.subject].types
    IN  /\ r.value.type = "union"
        /\ Len(r.value.types) = Len(members)
        /\ \A j \in DOMAIN members :
                NormalisedRoot(r.value.types[j], members[j], r.frame.depth + 1)

\* normaliseType reaches its union branch on the type t at this depth: the
\* display string is not passed through, the depth is not past MAX_DEPTH
\* and the type carries no whitelisted alias.
ReachesUnionBranch(t, depth) ==
    /\ Types[t].isUnion
    /\ ~PassedThrough(t)
    /\ depth <= MAX_DEPTH
    /\ Types[t].aliasSymbol \notin aliasWhitelist

\* C12 as stated: a union that matches neither known sequence is always
\* normalised to a union node with one normalised entry per member, in
\* member order.
C12_NonMatchingUnionAlwaysExpands ==
    \A r \in NormaliseTypeReturns :
        NonMatchingUnion(r.frame.subject) => ExpandedMemberByMember(r)

\* C12, amended: a union that matches neither known sequence is normalised
\* to a union node with one normalised entry per member, in member order,
\* when normaliseType reaches its union branch on it.
C12_NonMatchingUnionExpands ==
    \A r \in NormaliseTypeReturns :
        (NonMatchingUnion(r.frame.subject)
            /\ ReachesUnionBranch(r.frame.subject, r.frame.depth))
                => ExpandedMemberByMember(r)

\* The union Space has been expanded into its two members, in order.
C12_Witness ==
    \E r \in NormaliseTypeReturns :
        /\ r.frame.subject = "Space"
        /\ r.value = [type |-> "union",
                      types |-> <<StringNode("\"small\""), StringNode("\"large\"")>>]

\* The call, on a union that starts with the six ReactNode members, returned
\* 'ReactNode'; on the union of exactly the four ReactNodeNoStrings members
\* it returned 'ReactNodeNoStrings'; on a union that has more members than
\* those four it did not.
CollapsedBySignature(r) ==
    LET t == r.frame.subject
    IN  /\ slice6(memberStrings(t)) = ReactNodeSignature
            => r.value = StringNode("ReactNode")
        /\ (slice6(memberStrings(t)) # ReactNodeSignature
                /\ memberStrings(t) = ReactNodeNoStringsSignature)
            => r.value = StringNode("ReactNodeNoStrings")
        /\ (Len(memberStrings(t)) > Len(ReactNodeNoStringsSignature)
                /\ SubSeq(memberStrings(t), 1, Len(ReactNodeNoStringsSignature))
                        = ReactNodeNoStringsSignature)
            => r.value # StringNode("ReactNodeNoStrings")

\* C13 as stated: every union whose first six member display strings are
\* the ReactNode sequence is normalised to 'ReactNode', whatever members
\* follow, and only a union of exactly the four ReactNodeNoStrings members
\* is normalised to 'ReactNodeNoStrings'.
C13_UnionsAlwaysCollapse ==
    \A r \in NormaliseTypeReturns :
        Types[r.frame.subject].isUnion => CollapsedBySignature(r)

\* C13, amended: the same, for the unions normaliseType reaches its union
\* branch on.
C13_UnionsCollapse ==
    \A r \in NormaliseTypeReturns :
        ReachesUnionBranch(r.frame.subject, r.frame.depth)
            => CollapsedBySignature(r)

\* The props of Box: a union of seven members has collapsed to 'ReactNode',
\* the union of the four members to 'ReactNodeNoStrings', and the union of
\* those four and a fifth member is a union node of five entries.
C13_Witness ==
    /\ \E r \in NormaliseTypeReturns :
            /\ r.frame.subject = "ReactNode"
            /\ Len(Types["ReactNode"].types) > Len(ReactNodeSignature)
            /\ r.value = StringNode("ReactNode")
    /\ \E r \in NormaliseTypeReturns :
            /\ r.frame.subject = "ReactNodeNoStrings"
            /\ r.value = StringNode("ReactNodeNoStrings")
    /\ \E r \in NormaliseTypeReturns :
            /\ r.frame.subject = "IconOrText"
            /\ r.value.type = "union"
            /\ Len(r.value.types) = Len(Types["IconOrText"].types)

\* The exports the loop is done with.
Handled == {env.exports[i] : i \in 1..(next - 1)}

\* ExportDoc: a ComponentDoc or a HookDoc.
IsComponentDoc(doc) ==
    /\ DOMAIN doc = {"exportType", "props"}
    /\ doc.exportType = "component"
    /\ doc.props.type = "interface"

IsHookDoc(doc) ==
    /\ DOMAIN doc = {"exportType", "params", "returnType"}
    /\ doc.exportType = "hook"

\* C14: every value of the result mapping is an ExportDoc, the hook form for
\* an export whose name starts with 'use' and the component form for every
\* other export, also when no props parameter is found for it.
C14_EveryDocIsExportDoc ==
    \A name \in DOMAIN docs :
        IF startsWithUse(name) THEN IsHookDoc(docs[name])
                               ELSE IsComponentDoc(docs[name])

\* What holds instead: the doc of a component without a props object is a
\* bare interface node, without exportType.
BareInterfaceDoc ==
    /\ pc = "returned"
    /\ "Spacer" \in DOMAIN docs
    /\ docs.Spacer = [type |-> "interface", props |-> <<>>]

\* The three ways a component has no inferable props parameter: no call
\* signature, only signatures without parameters, a props symbol without a
\* declaration.
NoInferableProps(exp) ==
    \/ Exports[exp] = <<>>
    \/ \A i \in DOMAIN Exports[exp] : Exports[exp][i].parameters = <<>>
    \/ ~getComponentPropsType(exp).valueDeclaration

\* The interface node of a doc: the props of a component doc, or the doc
\* itself when it is an interface node.
InterfaceOf(doc) == IF "exportType" \in DOMAIN doc THEN doc.props ELSE doc

\* C15: a component export with no inferable props parameter is in the
\* result mapping once the loop is done with it, its doc is an interface of
\* zero properties, and no failure is logged for it.
C15_NoPropsStillDocumented ==
    \A name \in Handled :
        (~startsWithUse(name) /\ NoInferableProps(name)) =>
            /\ name \in DOMAIN docs
            /\ InterfaceOf(docs[name]).type = "interface"
            /\ InterfaceOf(docs[name]).props = <<>>
            /\ name \notin FailedNames

\* A component whose props symbol has no declaration and one without a call
\* signature are both in the returned mapping, and nothing was logged.
C15_Witness ==
    /\ pc = "returned"
    /\ env.exports = <<"Ghost", "Spacer">>
    /\ DOMAIN docs = {"Ghost", "Spacer"}
    /\ log = <<>>

\* The least member of a non-empty set of numbers.
Least(S) == CHOOSE x \in S : \A y \in S : x <= y

\* The props parameter as C16 states it: in the first call signature that
\* has a parameter, a parameter named props, else the only parameter when
\* there is exactly one; none otherwise.
FirstSignatureWithParameter(exp) ==
    LET sigs == Exports[exp]
        withParams == {i \in DOMAIN sigs : Len(sigs[i].parameters) >= 1}
    IN  IF withParams = {} THEN NoSymbol
        ELSE LET params == sigs[Least(withParams)].parameters
                 named == {j \in DOMAIN params : params[j].name = "props"}
             IN  IF named # {} THEN params[Least(named)]
                 ELSE IF Len(params) = 1 THEN params[1]
                 ELSE NoSymbol

\* The props parameter, amended: the first parameter of the first call
\* signature whose first parameter is named props or that has exactly one
\* parameter; none when no signature is such.
FirstQualifyingSignature(exp) ==
    LET sigs == Exports[exp]
        qualifying == {i \in DOMAIN sigs :
                        /\ Len(sigs[i].parameters) >= 1
                        /\ \/ sigs[i].parameters[1].name = "props"
                           \/ Len(sigs[i].parameters) = 1}
    IN  IF qualifying = {} THEN NoSymbol
        ELSE sigs[Least(qualifying)].parameters[1]

\* getComponentDocs documents the type of the parameter PropsParam gives for
\* the export: it calls normalizeInterface on that type and nothing else,
\* the doc has the properties of that type, and without a declared
\* parameter it makes no call.
PropsResolvedAs(PropsParam(_)) ==
    /\ (stack # <<>> /\ stack[1].fn = "getComponentDocs") =>
            LET param == PropsParam(stack[1].subject)
            IN  IF param = NoSymbol \/ ~param.valueDeclaration
                    THEN Len(stack) = 1 /\ stack[1].acc = <<>>
                    ELSE /\ Len(stack) >= 2 =>
                                /\ stack[2].fn = "normalizeInterface"
                                /\ stack[2].subject = param.type
                         /\ Len(stack[1].acc) = 1 =>
                                NormalisedRoot(stack[1].acc[1], param.type, 0)
    /\ \A name \in DOMAIN docs :
            ~startsWithUse(name) =>
                LET param == PropsParam(name)
                IN  IF param = NoSymbol \/ ~param.valueDeclaration
                        THEN InterfaceOf(docs[name]).props = <<>>
                        ELSE NormalisedRoot(InterfaceOf(docs[name]), param.type, 0)

\* C16 as stated: props are resolved in the first call signature that has a
\* parameter, from a parameter named props or its only parameter, and later
\* signatures are not consulted.
C16_PropsFromFirstSignatureWithParameter ==
    PropsResolvedAs(FirstSignatureWithParameter)

\* C16, amended: the call signatures are gone through in order, and the
\* props are the first parameter of the first signature whose first
\* parameter is named props or that has exactly one parameter.
C16_PropsFromFirstQualifyingSignature ==
    PropsResolvedAs(FirstQualifyingSignature)

\* Overloaded(ref, props) and Overloaded(item: Leaf): the docs are those of
\* Leaf, the only parameter of the second signature.
C16_Witness ==
    /\ pc = "returned"
    /\ "Overloaded" \in DOMAIN docs
    /\ DOMAIN docs.Overloaded.props.props = {"value"}

\* The error entries of the console.
Errors == SelectSeq(log, LAMBDA entry : entry.level = "error")

\* With a config that cannot be read or parsed the run never gets to
\* createProgram or to an export and has no docs, and once it has thrown
\* exactly that error is on the console.
SetupErrorContained ==
    env.config # "ok" =>
        /\ pc \in {"readConfig", "parseConfig", "thrown"}
        /\ stack = <<>> /\ next = 1 /\ docs = <<>>
        /\ pc = "thrown" =>
                Errors = <<LogEntry("error",
                            IF env.config = "unreadable"
                                THEN "readConfigFile"
                                ELSE "parseJsonConfigFileContent")>>
        /\ pc # "thrown" => log = <<>>

\* C17: when the config cannot be read or its parsing reports an error, the
\* error is logged and thrown: the run ends by the throw, with the error on
\* the console, without a program, a processed export or a returned mapping.
C17_SetupErrorRethrown ==
    /\ []SetupErrorContained
    /\ (env.config # "ok") ~> (pc = "thrown")

\* A config with a parse error, and a module with exports: the run has
\* thrown after its second step.
C17_Witness ==
    /\ env.config = "invalid"
    /\ env.hasModule
    /\ env.exports # <<>>
    /\ pc = "thrown"
    /\ Len(log) = 1

\* The types a hook doc is made of: the types of the parameters of the first
\* call signature of the export, in order, then its return type.
FirstSignatureTypes(exp) ==
    LET callSignature == Exports[exp][1]
    IN  [i \in DOMAIN callSignature.parameters |-> callSignature.parameters[i].type]
            \o <<callSignature.returnType>>

\* C18: the doc of a hook has one params entry per parameter of the first
\* call signature, in order, and the return type of that signature, each
\* normalised by a call of its own from depth 0; later call signatures
\* leave no trace.
C18_HookDocsFromFirstSignature ==
    /\ (stack # <<>> /\ stack[1].fn = "getHookDocs" /\ ~Throws(stack[1])) =>
            LET expected == FirstSignatureTypes(stack[1].subject)
                done == Len(stack[1].acc)
            IN  /\ done <= Len(expected)
                /\ \A j \in 1..done :
                        NormalisedRoot(stack[1].acc[j], expected[j], 0)
                /\ Len(stack) >= 2 =>
                        /\ done < Len(expected)
                        /\ stack[2].fn = "normaliseType"
                        /\ stack[2].subject = expected[done + 1]
                        /\ stack[2].depth = 0
    /\ \A name \in DOMAIN docs :
            startsWithUse(name) =>
                LET expected == FirstSignatureTypes(name)
                    doc == docs[name]
                IN  /\ doc.exportType = "hook"
                    /\ Len(doc.params) = Len(expected) - 1
                    /\ \A j \in DOMAIN doc.params :
                            NormalisedRoot(doc.params[j], expected[j], 0)
                    /\ NormalisedRoot(doc.returnType, expected[Len(expected)], 0)

\* useExpr(expr: Expr, node: ListNode): boolean, with a second signature
\* useExpr(text: string): string: the doc has the two parameters of the
\* first signature, the union first, and the interface ListNode unfolded
\* six times as from depth 0, and the return type boolean.
C18_Witness ==
    /\ pc = "returned"
    /\ "useExpr" \in DOMAIN docs
    /\ Len(Exports["useExpr"]) > 1
    /\ Len(docs.useExpr.params) = Len(Exports["useExpr"][1].parameters)
    /\ docs.useExpr.params[1].type = "union"
    /\ FollowNext(docs.useExpr.params[Len(docs.useExpr.params)], 5).type = "interface"
    /\ FollowNext(docs.useExpr.params[Len(docs.useExpr.params)], 6)
            = StringNode("ListNode")
    /\ docs.useExpr.returnType = StringNode("boolean")

\* The call returned an alias node for the whitelisted alias the type
\* carries, with one entry per alias type argument, in order, the entry of
\* an argument being its normalisation one level deeper.
AliasNodeOfWhitelistedAlias(r) ==
    LET type == Types[r.frame.subject]
    IN  /\ type.aliasSymbol \in aliasWhitelist
        /\ r.value.alias = type.aliasSymbol
        /\ Len(r.value.params) = Len(type.aliasTypeArguments)
        /\ \A j \in DOMAIN type.aliasTypeArguments :
                NormalisedRoot(r.value.params[j], type.aliasTypeArguments[j],
                               r.frame.depth + 1)

\* The call returned what it returns for a type without an alias: no alias
\* node, but the string, union node or interface node of the type.
ExpandedAsWithoutAlias(r) ==
    /\ r.value.type # "alias"
    /\ NormalisedRoot(r.value, r.frame.subject, r.frame.depth)
    /\ (NonMatchingUnion(r.frame.subject)
            /\ ReachesUnionBranch(r.frame.subject, r.frame.depth))
                => ExpandedMemberByMember(r)

\* C22: normaliseType returns an alias node only for a type whose alias is
\* whitelisted, with the alias type arguments normalised one level deeper as
\* its params (none when the alias has no arguments); a type with any other
\* alias is normalised as a type without alias is.
C22_AliasNodeOnlyForWhitelist ==
    \A r \in NormaliseTypeReturns :
        /\ r.value.type = "alias" => AliasNodeOfWhitelistedAlias(r)
        /\ (Types[r.frame.subject].aliasSymbol # ""
                /\ Types[r.frame.subject].aliasSymbol \notin aliasWhitelist)
            => ExpandedAsWithoutAlias(r)

\* The parameters of useExpr: ResponsiveProp without type arguments is an
\* alias node without params, next to the union Expr, whose alias is not
\* whitelisted, as a union node.
C22_Witness ==
    /\ stack # <<>>
    /\ stack[1].subject = "useExpr"
    /\ Len(stack[1].acc) = 2
    /\ stack[1].acc[1].type = "union"
    /\ Types["Expr"].aliasSymbol = "Expr"
    /\ stack[1].acc[2] = [type |-> "alias", alias |-> "ResponsiveProp", params |-> <<>>]

\* ResponsiveProp<Space> is an alias node whose one param is the union Space
\* expanded, although Space is an alias too.
AliasNodeWithParams ==
    \E r \in NormaliseTypeReturns :
        /\ r.frame.subject = "ResponsiveSpace"
        /\ r.value.type = "alias"
        /\ r.value.alias = "ResponsiveProp"
        /\ Len(r.value.params) = 1
        /\ r.value.params[1].type = "union"

\* The normalizeInterface calls that have returned.
NormalizeInterfaceReturns == {r \in Returns : r.frame.fn = "normalizeInterface"}

\* The property of the type t with this name.
PropertyNamed(t, name) ==
    CHOOSE prop \in Range(Types[t].properties) : prop.name = name

\* C23: the interface node normalizeInterface returns has exactly one entry
\* per property of the type that is not named 'key', under the name of the
\* property, with that name as propName and with required true exactly when
\* the property is not optional; this at every depth.
C23_OneEntryPerKeptProperty ==
    \A r \in NormalizeInterfaceReturns :
        LET t == r.frame.subject
            entries == r.value.props
        IN  /\ r.value.type = "interface"
            /\ DOMAIN entries =
                    {prop.name : prop \in Range(Types[t].properties)} \ {"key"}
            /\ \A name \in DOMAIN entries :
                    /\ entries[name].propName = name
                    /\ entries[name].required = ~PropertyNamed(t, name).optional

\* ListNode, which has a property key, normalised under another interface:
\* the entries are those of its four other properties, value required and
\* next not.
C23_Witness ==
    \E r \in NormalizeInterfaceReturns :
        /\ r.frame.subject = "ListNode"
        /\ r.frame.depth > 2
        /\ "key" \in {prop.name : prop \in Range(Types["ListNode"].properties)}
        /\ DOMAIN r.value.props = {"value", "done", "children", "next"}
        /\ r.value.props.value.required
        /\ ~r.value.props.next.required

\* The tag names of the model in lower case.
LowerCase(name) ==
    IF name \in {"Deprecated", "DEPRECATED"} THEN "deprecated" ELSE name

\* C24: the tags of a property entry are the doc tags of the property, in
\* their order, without those named 'see', and deprecated is true exactly when
\* one of the tags that remain is named 'deprecated' in any letter case.
C24_TagsAndDeprecated ==
    \A r \in NormalizeInterfaceReturns :
        \A name \in DOMAIN r.value.props :
            LET entry == r.value.props[name]
                docTags == PropertyNamed(r.frame.subject, name).tags
                remaining == SelectSeq(docTags, LAMBDA tag : tag.name # "see")
            IN  /\ entry.tags = remaining
                /\ entry.deprecated <=>
                        \E i \in DOMAIN remaining :
                            LowerCase(remaining[i].name) = "deprecated"

\* Box is documented: hidden, tagged Deprecated and see, keeps the first tag
\* and is deprecated; style, tagged deprecatedSince, is not deprecated; next of
\* ListNode, tagged see only, has no tags.
C24_Witness ==
    /\ "Box" \in DOMAIN docs
    /\ docs["Box"].props.props.hidden.tags = <<Tag("Deprecated")>>
    /\ docs["Box"].props.props.hidden.deprecated
    /\ docs["Box"].props.props.style.tags = <<Tag("deprecatedSince")>>
    /\ ~docs["Box"].props.props.style.deprecated
    /\ \E r \in NormalizeInterfaceReturns :
            /\ r.frame.subject = "ListNode"
            /\ Types["ListNode"].properties[5].tags = <<Tag("see")>>
            /\ r.value.props.next.tags = <<>>
            /\ ~r.value.props.next.deprecated

\* A normalizeInterface frame called, through normaliseType, by the body of
\* another normalizeInterface frame is two deeper than that frame.
NestingAdvancesByTwo ==
    \A i \in DOMAIN stack :
        (/\ i + 2 <= Len(stack)
         /\ stack[i].fn = "normalizeInterface"
         /\ stack[i + 1].fn = "normaliseType"
         /\ stack[i + 2].fn = "normalizeInterface")
            => stack[i + 2].depth = stack[i].depth + 2

\* The interface nodes of this node nest at most six deep, given that the
\* node lies under level interface nodes already, and the properties of an
\* interface node at the sixth level are strings.
RECURSIVE SixLevels(_, _)
SixLevels(node, level) ==
    IF node.type = "interface" THEN
        /\ level + 1 <= 6
        /\ \A name \in DOMAIN node.props :
                IF level + 1 = 6
                    THEN node.props[name].type.type = "string"
                    ELSE SixLevels(node.props[name].type, level + 1)
    ELSE IF node.type = "union" THEN
        \A i \in DOMAIN node.types : SixLevels(node.types[i], level)
    ELSE IF node.type = "alias" THEN
        \A i \in DOMAIN node.params : SixLevels(node.params[i], level)
    ELSE TRUE

\* C26: an interface nested directly in another is normalised two deeper, so
\* in a component doc the interface nodes nest at most six deep, the
\* interface of the props counted, and every property of an interface node
\* at the sixth level is a string.
C26_SixInterfaceLevels ==
    /\ NestingAdvancesByTwo
    /\ \A name \in DOMAIN docs :
            IsComponentDoc(docs[name]) => SixLevels(docs[name].props, 0)

\* List is documented: its props interface ListNode nests six deep through
\* next, and all four properties of the sixth are strings, next, an interface
\* everywhere above, included.
C26_Witness ==
    /\ "List" \in DOMAIN docs
    /\ IsComponentDoc(docs["List"])
    /\ \A n \in 0..5 : FollowNext(docs["List"].props, n).type = "interface"
    /\ LET sixth == FollowNext(docs["List"].props, 5)
       IN  /\ DOMAIN sixth.props = {"value", "done", "children", "next"}
           /\ \A name \in DOMAIN sixth.props :
                    sixth.props[name].type.type = "string"
           /\ sixth.props.children.type =
                    StringNode(Types["NonNullReactNode"].str)

----------------------------------------------------------------------------
(* Rating *)

RatingSamples == {Number(n) : n \in (0 - Steps)..(6 * Steps)} \cup {NaN}

RatingPropsSamples ==
    [rating : RatingSamples, showTextRating : BOOLEAN, ariaLabel : {"", "Rated"}]

\* !rating: true of 0 and of NaN.
falsy(rating) == rating.nan \/ rating.steps = 0

\* rating >= 0 && rating <= 5: a comparison with NaN is false.
withinBounds(rating) ==
    ~rating.nan /\ rating.steps >= 0 /\ rating.steps <= 5 * Steps

\* The condition Rating asserts.
assertion(rating) == falsy(rating) \/ withinBounds(rating)

\* Math.round of num/den, for num >= 0: halves go up.
round(num, den) == (2 * num + den) \div (2 * den)

\* getPercent: NaN for the rating NaN, which Math.max, Math.min and
\* Math.round hand on.
getPercent(rating, position) ==
    IF rating.nan THEN [nan |-> TRUE, value |-> 0]
    ELSE [nan |-> FALSE,
          value |-> round(Min(Max(rating.steps - position * Steps, 0), Steps) * 100,
                          Steps)]

\* A faulty variant of RatingStar: the half star is chosen after the full one.
RatingStarHalfLast(percent) ==
    LET half == ~percent.nan /\ percent.value >= 25 /\ percent.value < 75
    IN  IF half THEN "IconStarHalfSvg"
        ELSE IF ~percent.nan /\ percent.value > 50 THEN "IconStarFullSvg"
        ELSE "IconStarEmptySvg"

\* The icon RatingStar renders: a comparison with NaN is false.
RatingStar(percent) ==
    LET half == ~percent.nan /\ percent.value >= 25 /\ percent.value < 75
        full == ~percent.nan /\ percent.value > 50
    IN  IF full THEN "IconStarFullSvg"
        ELSE IF half THEN "IconStarHalfSvg"
        ELSE "IconStarEmptySvg"

\* ratingArr = [...Array(5)]: the positions of the stars.
ratingArr == [i \in 1..5 |-> i - 1]

\* rating.toFixed(1), for NaN and for rating >= 0: the nearest decimal with
\* one digit.  Where the rating is halfway between two of them the result
\* depends on its binary representation, and is either.
toFixed1(rating) ==
    IF rating.nan THEN {FixedNaN}
    ELSE LET tenths == (10 * rating.steps) \div Steps
             rest == (10 * rating.steps) % Steps
         IN  IF 2 * rest < Steps THEN {Fixed(tenths)}
             ELSE IF 2 * rest > Steps THEN {Fixed(tenths + 1)}
             ELSE {Fixed(tenths), Fixed(tenths + 1)}

RatingInit ==
    /\ input = BaseTokens
    /\ status = "idle"
    /\ theme = EmptyTheme
    /\ env = [config |-> "ok", hasModule |-> FALSE, exports |-> <<>>]
    /\ pc = "off"
    /\ next = 1
    /\ stack = <<>>
    /\ docs = <<>>
    /\ log = <<>>
    /\ ratingProps \in RatingPropsSamples
    /\ ratingStatus = "idle"
    /\ rendered = NothingRendered
    /\ calls = <<>>
    /\ TooltipOff

\* Rating renders: the assertion throws, or the stars and labels are made.
Rating ==
    /\ ratingStatus = "idle"
    /\ IF ~assertion(ratingProps.rating)
        THEN /\ ratingStatus' = "threw"
             /\ UNCHANGED rendered
        ELSE /\ ratingStatus' = "rendered"
             /\ \E fixed \in toFixed1(ratingProps.rating) :
                    rendered' =
                        [stars |->
                            [i \in DOMAIN ratingArr |->
                                RatingStar(getPercent(ratingProps.rating, ratingArr[i]))],
                         ariaLabel |->
                            IF ratingProps.ariaLabel # ""
                                THEN [custom |-> TRUE, fixed |-> Fixed(0), outOf |-> 0]
                                ELSE [custom |-> FALSE, fixed |-> fixed,
                                      outOf |-> Len(ratingArr)],
                         textRating |->
                            IF ratingProps.showTextRating
                                THEN [shown |-> TRUE, fixed |-> fixed]
                                ELSE [shown |-> FALSE, fixed |-> Fixed(0)]]
    /\ UNCHANGED ratingProps
    /\ UNCHANGED <<themeVars, docsVars, calls, tooltipVars>>

RatingNext == Rating

RatingSpec == RatingInit /\ [][RatingNext]_vars

\* The rating is a number of the closed range [0, 5].
InClosedRange(rating) ==
    ~rating.nan /\ 0 <= rating.steps /\ rating.steps <= 5 * Steps

\* C20: Rating throws its assertion error for every rating outside [0, 5]
\* and renders for every rating inside it, 0 and 5 included.
C20_AssertionGuardsRange ==
    ratingStatus # "idle" =>
        (ratingStatus = "threw" <=> ~InClosedRange(ratingProps.rating))

\* What holds instead: the assertion separates the ratings that are numbers,
\* and lets NaN through.
AssertionGuardsRangeButNaN ==
    ratingStatus # "idle" =>
        (ratingStatus = "threw" <=>
            (~ratingProps.rating.nan /\ ~InClosedRange(ratingProps.rating)))

\* Rating has rendered the rating NaN: five empty stars and the text 'NaN'.
NaNRendered ==
    /\ ratingProps.rating = NaN
    /\ ratingProps.showTextRating
    /\ ratingStatus = "rendered"
    /\ rendered.stars = [i \in DOMAIN ratingArr |-> "IconStarEmptySvg"]
    /\ rendered.textRating.fixed = FixedNaN


\* The rating less the position, clamped to [0, 1], in steps.
Clamped(position) ==
    LET over == ratingProps.rating.steps - position * Steps
    IN  IF over < 0 THEN 0 ELSE IF over > Steps THEN Steps ELSE over

\* That fraction as a percentage rounded to the nearest integer, halves up.
Percent(position) ==
    CHOOSE n \in 0..100 :
        /\ 2 * n * Steps - Steps <= 200 * Clamped(position)
        /\ 200 * Clamped(position) < 2 * n * Steps + Steps

\* How full a star is.
Fullness(star) ==
    IF star = "IconStarFullSvg" THEN 2
    ELSE IF star = "IconStarHalfSvg" THEN 1
    ELSE 0

\* C27: for a rating of [0, 5] the star at position p is full when its
\* percentage is above 50, half when it is from 25 to 50 and empty when it is
\* below 25; the five stars are full stars, then at most one half star, then
\* empty stars, so no star is fuller than the one before it.
C27_FullHalfEmpty ==
    (ratingStatus = "rendered" /\ InClosedRange(ratingProps.rating)) =>
        /\ Len(rendered.stars) = 5
        /\ \A i \in 1..5 :
                rendered.stars[i] =
                    IF Percent(i - 1) > 50 THEN "IconStarFullSvg"
                    ELSE IF Percent(i - 1) >= 25 THEN "IconStarHalfSvg"
                    ELSE "IconStarEmptySvg"
        /\ \A i \in 1..4 :
                Fullness(rendered.stars[i]) >= Fullness(rendered.stars[i + 1])
        /\ Cardinality({i \in 1..5 : rendered.stars[i] = "IconStarHalfSvg"}) <= 1

\* A rating whose third star is at 24.5 percent, which rounds to 25: two
\* full stars, a half star, two empty stars.
C27_Witness ==
    /\ ratingStatus = "rendered"
    /\ InClosedRange(ratingProps.rating)
    /\ 200 * (ratingProps.rating.steps - 2 * Steps) = 49 * Steps
    /\ Percent(2) = 25
    /\ rendered.stars =
            <<"IconStarFullSvg", "IconStarFullSvg", "IconStarHalfSvg",
              "IconStarEmptySvg", "IconStarEmptySvg">>

\* A rating whose fourth star is at 51 percent: four full stars, none half.
FullJustAboveHalf ==
    /\ ratingStatus = "rendered"
    /\ Percent(3) = 51
    /\ rendered.stars =
            <<"IconStarFullSvg", "IconStarFullSvg", "IconStarFullSvg",
              "IconStarFullSvg", "IconStarEmptySvg">>


----------------------------------------------------------------------------
(* TooltipRenderer *)

\* The visible usePopperTooltip returns: the one it is given.
visible(isStatic, controlledVisible) == isStatic \/ controlledVisible

\* A faulty variant of dismissListeners: keydown and scroll stay attached.
dismissListenersKept(triggerRef, isVisible) ==
    {"keydown", "scroll"} \cup
        (IF triggerRef /\ isVisible THEN {"focusin"} ELSE {})

\* The document listeners the two dismiss effects leave attached.
dismissListeners(triggerRef, isVisible) ==
    (IF isVisible THEN {"keydown", "scroll"} ELSE {}) \cup
        (IF triggerRef /\ isVisible THEN {"focusin"} ELSE {})

\* handleKeyDown, handleScroll and handleFocusIn, on the state t.
handleKeyDown(t, key) ==
    IF key = "Escape" THEN [t EXCEPT !.controlledVisible = FALSE] ELSE t

handleScroll(t) == [t EXCEPT !.controlledVisible = FALSE]

\* event.currentTarget of a listener of the document is the document, which
\* is never the trigger element.
handleFocusIn(t) ==
    LET currentTarget == "document"
        triggerRef == IF t.triggerRef THEN "element" ELSE "null"
    IN  IF currentTarget # triggerRef
            THEN [t EXCEPT !.controlledVisible = FALSE]
            ELSE t

\* A faulty variant of clearTimeout: the timeout stays pending.
clearTimeoutForgotten(timeouts, timeout) == timeouts

\* clearTimeout(timeout), on the pending timeouts.
clearTimeout(timeouts, timeout) == {t \in timeouts : t.id # timeout}

\* The opacity effect, run after the commit of the event n that took the
\* state before to t: nothing when tooltipRef and visible are as before;
\* otherwise the cleanup of its last run, then setOpacity(0) or a new timeout.
opacityEffect(before, t, n) ==
    IF <<t.tooltipRef, t.visible>> = <<before.tooltipRef, before.visible>>
        THEN t
        ELSE LET pending == clearTimeout(t.timeouts, t.timeout)
             IN  IF ~t.tooltipRef \/ ~t.visible
                    THEN [t EXCEPT !.opacity = 0, !.timeouts = pending,
                                   !.timeout = 0, !.hiddenAt = n]
                    ELSE [t EXCEPT !.timeouts = pending \cup
                                        {[id |-> n,
                                          delay |-> IF t.mobile THEN 0 ELSE 250]},
                                   !.timeout = n]

\* The renders and commits that follow a change of state, up to the one that
\* changes nothing more: the tooltip element is rendered under a trigger and
\* given its ref while visible, and the effects run.
render(before, after, n) ==
    LET isVisible == visible(after.isStatic, after.controlledVisible)
    IN  opacityEffect(before,
            [after EXCEPT !.visible = isVisible,
                          !.tooltipRef = after.triggerRef /\ isVisible,
                          !.listeners = dismissListeners(after.triggerRef, isVisible)],
            n)

\* The TooltipRenderer as mounted, before its trigger has given its ref.
Mount(isStatic, mobile) ==
    render(NoTooltip,
           [NoTooltip EXCEPT !.isStatic = isStatic, !.mobile = mobile], 0)

TooltipInit ==
    /\ input = BaseTokens
    /\ status = "idle"
    /\ theme = EmptyTheme
    /\ env = [config |-> "ok", hasModule |-> FALSE, exports |-> <<>>]
    /\ pc = "off"
    /\ next = 1
    /\ stack = <<>>
    /\ docs = <<>>
    /\ log = <<>>
    /\ RatingOff
    /\ calls = <<>>
    /\ tooltip \in {Mount(isStatic, mobile) : isStatic \in BOOLEAN, mobile \in BOOLEAN}
    /\ event = NoEvent

\* The next event takes the state to after, and the component renders.
Handle(kind, key, timeout, after) ==
    /\ event.n < MaxEvents
    /\ tooltip' = render(tooltip, after, event.n + 1)
    /\ event' = Event(event.n + 1, kind, key, timeout,
                      tooltip.visible, tooltip.tooltipRef)
    /\ UNCHANGED <<themeVars, docsVars, ratingVars, calls>>

\* The trigger element is mounted or unmounted: React calls the ref.
SetTriggerRef ==
    \E element \in BOOLEAN :
        /\ element # tooltip.triggerRef
        /\ Handle("setTriggerRef", "", 0, [tooltip EXCEPT !.triggerRef = element])

\* The pointer or the focus enters or leaves the trigger element.
OnVisibleChange ==
    /\ tooltip.triggerRef
    /\ \E state \in BOOLEAN :
            Handle("onVisibleChange", "", 0,
                   [tooltip EXCEPT !.controlledVisible = state])

\* A key goes down somewhere in the document.
KeyDown ==
    \E key \in {"Escape", "Enter"} :
        Handle("keydown", key, 0,
               IF "keydown" \in tooltip.listeners
                   THEN handleKeyDown(tooltip, key) ELSE tooltip)

\* Something in the document scrolls.
Scroll ==
    Handle("scroll", "", 0,
           IF "scroll" \in tooltip.listeners THEN handleScroll(tooltip) ELSE tooltip)

\* Something in the document takes the focus.
FocusIn ==
    Handle("focusin", "", 0,
           IF "focusin" \in tooltip.listeners THEN handleFocusIn(tooltip) ELSE tooltip)

\* A pending timeout fires: setOpacity(100).
Timeout ==
    \E t \in tooltip.timeouts :
        Handle("timeout", "", t.id,
               [tooltip EXCEPT !.opacity = 100, !.timeouts = @ \ {t}])

TooltipNext ==
    \/ SetTriggerRef
    \/ OnVisibleChange
    \/ KeyDown
    \/ Scroll
    \/ FocusIn
    \/ Timeout

TooltipSpec == TooltipInit /\ [][TooltipNext]_vars

\* The tooltip is visible and its element is mounted.
Shown == tooltip.visible /\ tooltip.tooltipRef

\* Opacity 100 is that of a shown tooltip, and a hidden one has no timeout.
OpacityOfShown ==
    /\ tooltip.opacity = 100 => Shown
    /\ ~Shown => (tooltip.opacity = 0 /\ tooltip.timeouts = {})

\* The opacity becomes 100 by a timeout that fires on a shown tooltip and was
\* started after the tooltip was last hidden.
OpacityByTimeout ==
    (tooltip.opacity = 0 /\ tooltip'.opacity = 100) =>
        /\ event'.kind = "timeout"
        /\ event'.wasVisible /\ event'.wasMounted
        /\ Shown'
        /\ event'.timeout > tooltip.hiddenAt

\* Hiding the tooltip, or unmounting its element, leaves no timeout pending
\* and the opacity at 0.
HidingResets ==
    (Shown /\ ~Shown') =>
        /\ tooltip'.timeouts = {}
        /\ tooltip'.opacity = 0

\* C28: the opacity becomes 100 only by the entrance timeout firing while the
\* tooltip is visible and its element mounted; every change to not visible,
\* or to no element, cancels the pending timeout and resets the opacity to 0;
\* so a timeout started by an earlier show never sets the opacity to 100 once
\* the tooltip has been hidden.
C28_OpacityOnlyByLiveTimeout ==
    /\ []OpacityOfShown
    /\ [][OpacityByTimeout]_vars
    /\ [][HidingResets]_vars

\* Outside a StaticTooltipProvider the tooltip was shown, hidden before its
\* timeout fired, and shown again: the timeout of the second show has fired
\* and set the opacity to 100.
C28_Witness ==
    /\ ~tooltip.isStatic
    /\ tooltip.hiddenAt > 1
    /\ event.kind = "timeout"
    /\ event.timeout > tooltip.hiddenAt
    /\ tooltip.opacity = 100
    /\ Shown
    /\ tooltip.timeouts = {}

\* The last event was one that dismisses the tooltip.
Dismissal ==
    \/ event.kind \in {"scroll", "focusin"}
    \/ event.kind = "keydown" /\ event.key = "Escape"

VisibleWhenStaticOrControlled ==
    tooltip.visible <=> (tooltip.isStatic \/ tooltip.controlledVisible)

ListenersOnlyWhileVisible == tooltip.listeners # {} => tooltip.visible

StaticStaysVisible == tooltip.isStatic => tooltip.visible

\* C29: the tooltip is visible exactly when it is static or controlledVisible
\* is true; outside a StaticTooltipProvider an Escape keydown, a scroll or a
\* focusin that comes while it is visible sets controlledVisible to false and
\* hides it; the document listeners are attached only while it is visible;
\* inside a StaticTooltipProvider it stays visible whatever the events.
C29_DismissedWhileVisible ==
    /\ VisibleWhenStaticOrControlled
    /\ (~tooltip.isStatic /\ Dismissal /\ event.wasVisible) =>
            (~tooltip.controlledVisible /\ ~tooltip.visible)
    /\ ListenersOnlyWhileVisible
    /\ StaticStaysVisible

\* C29, amended: as above, but a focusin dismisses the tooltip only when it
\* comes while the tooltip is visible and its element is mounted, which
\* takes a mounted trigger element.
C29_DismissedWhileVisibleAndMounted ==
    /\ VisibleWhenStaticOrControlled
    /\ (/\ ~tooltip.isStatic
        /\ Dismissal
        /\ event.wasVisible
        /\ event.kind = "focusin" => event.wasMounted) =>
            (~tooltip.controlledVisible /\ ~tooltip.visible)
    /\ ListenersOnlyWhileVisible
    /\ StaticStaysVisible

\* Outside a StaticTooltipProvider a focusin came while the tooltip was
\* visible and mounted: it is hidden, and no listener is left attached.
C29_Witness ==
    /\ ~tooltip.isStatic
    /\ event.kind = "focusin"
    /\ event.wasVisible /\ event.wasMounted
    /\ tooltip.triggerRef
    /\ ~tooltip.controlledVisible
    /\ ~tooltip.visible
    /\ tooltip.listeners = {}

\* Inside a StaticTooltipProvider an Escape keydown came after the trigger
\* had shown the tooltip: controlledVisible is false and it is still visible.
StaticAfterEscape ==
    /\ tooltip.isStatic
    /\ event.kind = "keydown" /\ event.key = "Escape"
    /\ event.n > 2
    /\ ~tooltip.controlledVisible
    /\ tooltip.visible
    /\ "keydown" \in tooltip.listeners

\* The trigger element was unmounted while the tooltip was visible, and a
\* focusin came: controlledVisible is still true.
FocusInWithoutTrigger ==
    /\ ~tooltip.isStatic
    /\ event.kind = "focusin"
    /\ event.wasVisible /\ ~event.wasMounted
    /\ tooltip.controlledVisible
    /\ tooltip.visible

=============================================================================
